---- MODULE Spec2Model ----
(***************************************************************************)
(* State-machine model of src/src-rust/src/dsp_engine.rs: the real-time    *)
(* DSP chain WasmDspProcessor (3-band biquad EQ -> compressor -> Schroeder *)
(* reverb -> limiter), its setters, reset and block entry points.          *)
(*                                                                         *)
(* Numbers.  The code computes in f32.  The model computes in decimal      *)
(* fixed point: a finite f32 value v is the integer v * ONE, truncated     *)
(* toward zero after every multiplication and division (the model's        *)
(* rounding step, where f32 rounds to 24 bits), and NaN is its own value   *)
(* that every arithmetic operation propagates and every comparison         *)
(* rejects, as IEEE 754 does.  sample_rate is kept in whole Hz.            *)
(***************************************************************************)
EXTENDS Integers, Sequences, FiniteSets, TLC

\* ---------------------------------------------------------------- f32 ----

\* The fixed-point unit: the integer that stands for 1.0_f32.
ONE == 10 * 1000

\* f32::NAN, a value outside the range of every finite value of the model.
NaN == 0 - (2 ^ 30)

IsNaN(x) == x = NaN

\* A decimal literal of the source, n / d (d a power of ten dividing ONE).
Lit(n, d) == n * (ONE \div d)

Abs(x) == IF x < 0 THEN 0 - x ELSE x

Sgn(a, b) == IF (a < 0) = (b < 0) THEN 1 ELSE 0 - 1

\* a * b / ONE for a, b >= 0 without leaving 32 bits: both factors are split
\* into their integer and fractional parts.
MulMag(a, b) ==
    LET ah == a \div ONE
        al == a % ONE
        bh == b \div ONE
        bl == b % ONE
    IN  ah * bh * ONE + ah * bl + al * bh + (al * bl) \div ONE

\* a * ONE / b for a >= 0, b > 0: the integer part, then the fraction.
DivMag(a, b) == (a \div b) * ONE + ((a % b) * ONE) \div b

\* f32 +, -, *, /
FAdd(a, b) == IF IsNaN(a) \/ IsNaN(b) THEN NaN ELSE a + b

FSub(a, b) == IF IsNaN(a) \/ IsNaN(b) THEN NaN ELSE a - b

FMul(a, b) ==
    IF IsNaN(a) \/ IsNaN(b) THEN NaN ELSE Sgn(a, b) * MulMag(Abs(a), Abs(b))

\* x / 0.0 is +-inf or NaN in f32; the model has no infinity, and every
\* division of the code whose divisor can be 0 is modelled where it stands
\* (Turn, ExpCoeff), so a zero divisor here yields NaN.
FDiv(a, b) ==
    IF IsNaN(a) \/ IsNaN(b) \/ b = 0 THEN NaN
    ELSE Sgn(a, b) * DivMag(Abs(a), Abs(b))

FNeg(a) == IF IsNaN(a) THEN NaN ELSE 0 - a

\* f32 comparisons: false when either side is NaN.
FGt(a, b) == ~IsNaN(a) /\ ~IsNaN(b) /\ a > b

FLt(a, b) == ~IsNaN(a) /\ ~IsNaN(b) /\ a < b

\* f32::abs
FAbs(a) == IF IsNaN(a) THEN NaN ELSE Abs(a)

\* f32::max: the other operand when one is NaN.
FMax(a, b) == IF IsNaN(a) THEN b ELSE IF IsNaN(b) THEN a ELSE IF a > b THEN a ELSE b

\* f32::clamp(lo, hi): NaN stays NaN.
Clamp(x, lo, hi) == IF IsNaN(x) THEN NaN ELSE IF x < lo THEN lo ELSE IF x > hi THEN hi ELSE x

\* f32::sqrt, truncated: the largest r with r * r <= x * ONE.
RECURSIVE SqrtSearch(_, _, _)
SqrtSearch(n, lo, hi) ==
    IF lo >= hi THEN lo
    ELSE LET mid == (lo + hi + 1) \div 2
         IN  IF mid * mid <= n THEN SqrtSearch(n, mid, hi) ELSE SqrtSearch(n, lo, mid - 1)

FSqrt(x) ==
    IF IsNaN(x) \/ x < 0 THEN NaN ELSE SqrtSearch(x * ONE, 0, 4 * ONE)

\* log2 of a positive value: the exponent by halving and doubling, the
\* mantissa m in [1, 2) by the quadratic (m-1) * (1.3435 - 0.3435 * (m-1)).
RECURSIVE Log2(_)
Log2(p) ==
    IF p >= 2 * ONE THEN ONE + Log2(p \div 2)
    ELSE IF p < ONE THEN Log2(p * 2) - ONE
    ELSE LET f == p - ONE IN MulMag(f, Lit(13435, 10000) - MulMag(Lit(3435, 10000), f))

\* 2^y: the integer part k by shifting, the fraction f in [0, 1) by the
\* quadratic 1 + f * (0.6565 + 0.3435 * f); exact at y = 0.
Pow2(y) ==
    IF IsNaN(y) THEN NaN
    ELSE LET k == y \div ONE
             f == y - k * ONE
             m == ONE + MulMag(f, Lit(6565, 10000) + MulMag(Lit(3435, 10000), f))
         IN  IF k >= 0 THEN m * (2 ^ (IF k > 14 THEN 14 ELSE k))
             ELSE IF k < 0 - 30 THEN 0 ELSE m \div (2 ^ (0 - k))

\* f32::log10 of a positive value, and 10_f32.powf, through log2(10).
Log10(p) == IF IsNaN(p) THEN NaN ELSE FDiv(Log2(p), Lit(33219, 10000))

Pow10(x) == Pow2(FMul(x, Lit(33219, 10000)))

\* f32::exp, through log2(e).
Exp(x) == Pow2(FMul(x, Lit(14427, 10000)))

\* sin(pi * h) for h in [0, 1]: Bhaskara's rational approximation
\* 16 h (1-h) / (5 - 4 h (1-h)).
SinHalf(h) ==
    LET p == MulMag(h, ONE - h)
    IN  DivMag(16 * p, 5 * ONE - 4 * p)

\* sin(2 pi t) for a phase t in [0, 1) turns.
SinTurn(t) ==
    IF IsNaN(t) THEN NaN
    ELSE IF 2 * t < ONE THEN SinHalf(2 * t) ELSE 0 - SinHalf(2 * t - ONE)

CosTurn(t) == IF IsNaN(t) THEN NaN ELSE SinTurn((t + ONE \div 4) % ONE)

\* The phase of w0 = 2 pi freq / sample_rate in turns, reduced to [0, 1).
\* A zero sample rate makes w0 infinite (or NaN) and its sine and cosine NaN.
Turn(freq, sample_rate) ==
    IF IsNaN(freq) \/ IsNaN(sample_rate) \/ sample_rate = 0 THEN NaN
    ELSE ((Sgn(freq, sample_rate) * (Abs(freq) \div Abs(sample_rate))) % ONE)

\* ------------------------------------------------------- BiquadState ----

\* impl Default for BiquadState: the identity filter with empty history.
BiquadDefault ==
    [b0 |-> ONE, b1 |-> 0, b2 |-> 0, a1 |-> 0, a2 |-> 0,
     x1_l |-> 0, x2_l |-> 0, y1_l |-> 0, y2_l |-> 0,
     x1_r |-> 0, x2_r |-> 0, y1_r |-> 0, y2_r |-> 0]

\* The coefficient set {b0, b1, b2, a1, a2} of a biquad.
Coeffs(bq) == <<bq.b0, bq.b1, bq.b2, bq.a1, bq.a2>>

\* The per-channel history {x1, x2, y1, y2} of a biquad, left then right.
History(bq) ==
    <<bq.x1_l, bq.x2_l, bq.y1_l, bq.y2_l, bq.x1_r, bq.x2_r, bq.y1_r, bq.y2_r>>

\* out = b0*in + b1*x1 + b2*x2 - a1*y1 - a2*y2, evaluated left to right.
BiquadOut(bq, in, x1, x2, y1, y2) ==
    FSub(FSub(FAdd(FAdd(FMul(bq.b0, in), FMul(bq.b1, x1)), FMul(bq.b2, x2)),
              FMul(bq.a1, y1)),
         FMul(bq.a2, y2))

\* A biquad whose right channel is filtered with the left channel's history.
BiquadProcessStereoShared(bq, in_l, in_r) ==
    LET out_l == BiquadOut(bq, in_l, bq.x1_l, bq.x2_l, bq.y1_l, bq.y2_l)
        out_r == BiquadOut(bq, in_r, bq.x1_l, bq.x2_l, bq.y1_l, bq.y2_l)
    IN  [st |-> [bq EXCEPT !.x2_l = bq.x1_l, !.x1_l = in_l,
                           !.y2_l = bq.y1_l, !.y1_l = out_l,
                           !.x2_r = bq.x1_r, !.x1_r = in_r,
                           !.y2_r = bq.y1_r, !.y1_r = out_r],
         l |-> out_l, r |-> out_r]

\* BiquadState::process_stereo: one sample per channel, then the history shift.
BiquadProcessStereo(bq, in_l, in_r) ==
    LET out_l == BiquadOut(bq, in_l, bq.x1_l, bq.x2_l, bq.y1_l, bq.y2_l)
        out_r == BiquadOut(bq, in_r, bq.x1_r, bq.x2_r, bq.y1_r, bq.y2_r)
    IN  [st |-> [bq EXCEPT !.x2_l = bq.x1_l, !.x1_l = in_l,
                           !.y2_l = bq.y1_l, !.y1_l = out_l,
                           !.x2_r = bq.x1_r, !.x1_r = in_r,
                           !.y2_r = bq.y1_r, !.y1_r = out_r],
         l |-> out_l, r |-> out_r]

\* let a = 10.0_f32.powf(gain_db / 40.0)
ShelfA(gain_db) == Pow10(FDiv(gain_db, Lit(40, 1)))

\* let alpha = sin_w0 / 2.0 * ((a + 1.0/a) * (1.0/0.9 - 1.0) + 2.0).sqrt()
ShelfAlpha(sin_w0, a) ==
    FMul(FDiv(sin_w0, Lit(2, 1)),
         FSqrt(FAdd(FMul(FAdd(a, FDiv(ONE, a)), FSub(FDiv(ONE, Lit(9, 10)), ONE)),
                    Lit(2, 1))))

\* BiquadState::set_low_shelf: the five coefficients; the history is kept.
SetLowShelf(bq, freq, gain_db, sample_rate) ==
    LET a == ShelfA(gain_db)
        t == Turn(freq, sample_rate)
        cos_w0 == CosTurn(t)
        sin_w0 == SinTurn(t)
        alpha == ShelfAlpha(sin_w0, a)
        sqrt_a_2 == FMul(FMul(Lit(2, 1), FSqrt(a)), alpha)
        ap1 == FAdd(a, ONE)
        am1 == FSub(a, ONE)
        a0 == FAdd(FAdd(ap1, FMul(am1, cos_w0)), sqrt_a_2)
    IN  [bq EXCEPT
           !.b0 = FDiv(FMul(a, FAdd(FSub(ap1, FMul(am1, cos_w0)), sqrt_a_2)), a0),
           !.b1 = FDiv(FMul(FMul(Lit(2, 1), a), FSub(am1, FMul(ap1, cos_w0))), a0),
           !.b2 = FDiv(FMul(a, FSub(FSub(ap1, FMul(am1, cos_w0)), sqrt_a_2)), a0),
           !.a1 = FDiv(FMul(Lit(0 - 2, 1), FAdd(am1, FMul(ap1, cos_w0))), a0),
           !.a2 = FDiv(FSub(FAdd(ap1, FMul(am1, cos_w0)), sqrt_a_2), a0)]

\* BiquadState::set_peaking
SetPeaking(bq, freq, gain_db, q, sample_rate) ==
    LET a == ShelfA(gain_db)
        t == Turn(freq, sample_rate)
        cos_w0 == CosTurn(t)
        sin_w0 == SinTurn(t)
        alpha == FDiv(sin_w0, FMul(Lit(2, 1), q))
        a0 == FAdd(ONE, FDiv(alpha, a))
    IN  [bq EXCEPT
           !.b0 = FDiv(FAdd(ONE, FMul(alpha, a)), a0),
           !.b1 = FDiv(FMul(Lit(0 - 2, 1), cos_w0), a0),
           !.b2 = FDiv(FSub(ONE, FMul(alpha, a)), a0),
           !.a1 = FDiv(FMul(Lit(0 - 2, 1), cos_w0), a0),
           !.a2 = FDiv(FSub(ONE, FDiv(alpha, a)), a0)]

\* BiquadState::set_high_shelf
SetHighShelf(bq, freq, gain_db, sample_rate) ==
    LET a == ShelfA(gain_db)
        t == Turn(freq, sample_rate)
        cos_w0 == CosTurn(t)
        sin_w0 == SinTurn(t)
        alpha == ShelfAlpha(sin_w0, a)
        sqrt_a_2 == FMul(FMul(Lit(2, 1), FSqrt(a)), alpha)
        ap1 == FAdd(a, ONE)
        am1 == FSub(a, ONE)
        a0 == FAdd(FSub(ap1, FMul(am1, cos_w0)), sqrt_a_2)
    IN  [bq EXCEPT
           !.b0 = FDiv(FMul(a, FAdd(FAdd(ap1, FMul(am1, cos_w0)), sqrt_a_2)), a0),
           !.b1 = FDiv(FMul(FMul(Lit(0 - 2, 1), a), FAdd(am1, FMul(ap1, cos_w0))), a0),
           !.b2 = FDiv(FMul(a, FSub(FAdd(ap1, FMul(am1, cos_w0)), sqrt_a_2)), a0),
           !.a1 = FDiv(FMul(Lit(2, 1), FSub(am1, FMul(ap1, cos_w0))), a0),
           !.a2 = FDiv(FSub(FSub(ap1, FMul(am1, cos_w0)), sqrt_a_2), a0)]

\* --------------------------------------------------- CompressorState ----

\* impl Default for CompressorState
CompressorDefault ==
    [threshold_db |-> Lit(0 - 24, 1), ratio |-> Lit(4, 1),
     attack_coeff |-> 0, release_coeff |-> 0,
     envelope |-> 0, makeup_gain |-> ONE]

\* (-1.0 / (time_ms * 0.001 * sample_rate)).exp(); a zero product makes the
\* quotient -inf and the exponential 0.
ExpCoeff(time_ms, sample_rate) ==
    IF IsNaN(time_ms) \/ IsNaN(sample_rate) THEN NaN
    ELSE LET d == FMul(time_ms, Lit(1, 1000)) * sample_rate
         IN  IF d = 0 THEN 0 ELSE Exp(FDiv(0 - ONE, d))

\* CompressorState::update_coeffs
UpdateCoeffs(c, attack_ms, release_ms, sample_rate) ==
    [c EXCEPT !.attack_coeff = ExpCoeff(attack_ms, sample_rate),
              !.release_coeff = ExpCoeff(release_ms, sample_rate)]

\* let peak_db = if peak > 1e-10 { 20.0 * peak.log10() } else { -120.0 }
\* (1e-10 is below the model's resolution: the test is peak > 0).
PeakDb(peak) ==
    IF FGt(peak, 0) THEN FMul(Lit(20, 1), Log10(peak)) ELSE Lit(0 - 120, 1)

\* A faulty gain computer: the excess is not tested against 0.
GainReductionNoKnee(c, peak_db) ==
    FSub(FSub(peak_db, c.threshold_db), FDiv(FSub(peak_db, c.threshold_db), c.ratio))

\* The hard-knee gain computer.
GainReduction(c, peak_db) ==
    IF FGt(peak_db, c.threshold_db)
    THEN LET excess == FSub(peak_db, c.threshold_db)
         IN  FSub(excess, FDiv(excess, c.ratio))
    ELSE 0

\* A compressor keyed by the left channel alone.
CompressorProcessStereoLeftKeyed(c, in_l, in_r) ==
    LET gain_reduction == GainReduction(c, PeakDb(FAbs(in_l)))
        coeff == IF FGt(gain_reduction, c.envelope) THEN c.attack_coeff
                 ELSE c.release_coeff
        envelope == FAdd(gain_reduction, FMul(coeff, FSub(c.envelope, gain_reduction)))
        gain == FMul(Pow10(FDiv(FNeg(envelope), Lit(20, 1))), c.makeup_gain)
    IN  [st |-> [c EXCEPT !.envelope = envelope],
         l |-> FMul(in_l, gain), r |-> FMul(in_r, gain)]

\* CompressorState::process_stereo
CompressorProcessStereo(c, in_l, in_r) ==
    LET peak == FMax(FAbs(in_l), FAbs(in_r))
        gain_reduction == GainReduction(c, PeakDb(peak))
        coeff == IF FGt(gain_reduction, c.envelope) THEN c.attack_coeff
                 ELSE c.release_coeff
        envelope == FAdd(gain_reduction, FMul(coeff, FSub(c.envelope, gain_reduction)))
        gain == FMul(Pow10(FDiv(FNeg(envelope), Lit(20, 1))), c.makeup_gain)
    IN  [st |-> [c EXCEPT !.envelope = envelope],
         l |-> FMul(in_l, gain), r |-> FMul(in_r, gain)]

\* ------------------------------------------------------ LimiterState ----

\* impl Default for LimiterState
LimiterDefault ==
    [threshold |-> Lit(98, 100), release_coeff |-> Lit(9995, 10000), envelope |-> 0]

\* An attack that takes the target gain on every peak over the threshold,
\* above the envelope or not.
LimiterAttackAlways(lim, peak) ==
    IF FGt(peak, lim.threshold) THEN FSub(ONE, FDiv(lim.threshold, peak))
    ELSE lim.envelope

\* The envelope after the instant attack, before the release.
LimiterAttack(lim, peak) ==
    IF FGt(peak, lim.threshold)
    THEN LET target_gain == FSub(ONE, FDiv(lim.threshold, peak))
         IN  IF FGt(target_gain, lim.envelope) THEN target_gain ELSE lim.envelope
    ELSE lim.envelope

\* A faulty limiter: the release is applied before the attack.
LimiterProcessStereoReleaseFirst(lim, in_l, in_r) ==
    LET peak == FMax(FAbs(in_l), FAbs(in_r))
        envelope == LimiterAttack([lim EXCEPT !.envelope = FMul(@, lim.release_coeff)],
                                  peak)
        gain == FSub(ONE, envelope)
    IN  [st |-> [lim EXCEPT !.envelope = envelope],
         l |-> FMul(in_l, gain), r |-> FMul(in_r, gain)]

\* LimiterState::process_stereo
LimiterProcessStereo(lim, in_l, in_r) ==
    LET peak == FMax(FAbs(in_l), FAbs(in_r))
        envelope == FMul(LimiterAttack(lim, peak), lim.release_coeff)
        gain == FSub(ONE, envelope)
    IN  [st |-> [lim EXCEPT !.envelope = envelope],
         l |-> FMul(in_l, gain), r |-> FMul(in_r, gain)]


\* ------------------------------------------------------- ReverbState ----

\* The 48 kHz reference delays of ReverbState::new.
comb_delays_l == <<1557, 1617, 1491, 1422, 1277, 1356>>

comb_delays_r == <<1583, 1601, 1511, 1447, 1291, 1373>>

ap_delays == <<225, 556, 441, 341>>

\* (d as f32 * scale) as usize with scale = sample_rate / 48000.0: the cast
\* truncates, and saturates to 0 for a negative or NaN product.
DelayLen(d, sample_rate) ==
    IF IsNaN(sample_rate) \/ sample_rate <= 0 THEN 0
    ELSE (d * sample_rate) \div 48000

\* vec![0.0; n]
Zeros(n) == [k \in 1..n |-> 0]

\* ReverbState::new
ReverbNew(sample_rate) ==
    [mix |-> 0, enabled |-> FALSE,
     comb_buffers_l |-> [i \in 1..6 |-> Zeros(DelayLen(comb_delays_l[i], sample_rate))],
     comb_buffers_r |-> [i \in 1..6 |-> Zeros(DelayLen(comb_delays_r[i], sample_rate))],
     comb_indices |-> [i \in 1..6 |-> 0],
     comb_feedback |-> Lit(84, 100),
     ap_buffers_l |-> [i \in 1..4 |-> Zeros(DelayLen(ap_delays[i], sample_rate))],
     ap_buffers_r |-> [i \in 1..4 |-> Zeros(DelayLen(ap_delays[i], sample_rate))],
     ap_indices |-> [i \in 1..4 |-> 0],
     ap_feedback |-> Lit(5, 10)]

\* Whether buf[idx] is in bounds (cursors count from 0, sequences from 1).
InBounds(buf, idx) == idx < Len(buf)

\* One comb filter of the loop `for i in 0..6`: both channels are indexed by
\* the one cursor comb_indices[i], which advances modulo buf_l.len().  An
\* index out of bounds panics before anything of this comb is written.
CombStep(rv, i, in_l, in_r, out_l, out_r) ==
    LET idx == rv.comb_indices[i]
        buf_l == rv.comb_buffers_l[i]
        buf_r == rv.comb_buffers_r[i]
    IN  IF ~InBounds(buf_l, idx) \/ ~InBounds(buf_r, idx)
        THEN [st |-> rv, l |-> out_l, r |-> out_r, panic |-> TRUE]
        ELSE LET delayed_l == buf_l[idx + 1]
                 delayed_r == buf_r[idx + 1]
             IN  [st |-> [rv EXCEPT
                            !.comb_buffers_l[i][idx + 1] =
                                FAdd(in_l, FMul(delayed_l, rv.comb_feedback)),
                            !.comb_buffers_r[i][idx + 1] =
                                FAdd(in_r, FMul(delayed_r, rv.comb_feedback)),
                            !.comb_indices[i] = (idx + 1) % Len(buf_l)],
                  l |-> FAdd(out_l, delayed_l),
                  r |-> FAdd(out_r, delayed_r),
                  panic |-> FALSE]

RECURSIVE CombLoop(_, _, _, _, _, _)
CombLoop(rv, i, in_l, in_r, out_l, out_r) ==
    IF i > 6 THEN [st |-> rv, l |-> out_l, r |-> out_r, panic |-> FALSE]
    ELSE LET s == CombStep(rv, i, in_l, in_r, out_l, out_r)
         IN  IF s.panic THEN s ELSE CombLoop(s.st, i + 1, in_l, in_r, s.l, s.r)

\* One allpass filter of the loop `for i in 0..4`.
AllpassStep(rv, i, out_l, out_r) ==
    LET idx == rv.ap_indices[i]
        buf_l == rv.ap_buffers_l[i]
        buf_r == rv.ap_buffers_r[i]
    IN  IF ~InBounds(buf_l, idx) \/ ~InBounds(buf_r, idx)
        THEN [st |-> rv, l |-> out_l, r |-> out_r, panic |-> TRUE]
        ELSE LET delayed_l == buf_l[idx + 1]
                 delayed_r == buf_r[idx + 1]
                 new_l == FAdd(out_l, FMul(delayed_l, rv.ap_feedback))
                 new_r == FAdd(out_r, FMul(delayed_r, rv.ap_feedback))
             IN  [st |-> [rv EXCEPT
                            !.ap_buffers_l[i][idx + 1] = out_l,
                            !.ap_buffers_r[i][idx + 1] = out_r,
                            !.ap_indices[i] = (idx + 1) % Len(buf_l)],
                  l |-> FSub(delayed_l, FMul(new_l, rv.ap_feedback)),
                  r |-> FSub(delayed_r, FMul(new_r, rv.ap_feedback)),
                  panic |-> FALSE]

RECURSIVE AllpassLoop(_, _, _, _)
AllpassLoop(rv, i, out_l, out_r) ==
    IF i > 4 THEN [st |-> rv, l |-> out_l, r |-> out_r, panic |-> FALSE]
    ELSE LET s == AllpassStep(rv, i, out_l, out_r)
         IN  IF s.panic THEN s ELSE AllpassLoop(s.st, i + 1, s.l, s.r)

\* out_l /= 6.0; out_r /= 6.0; then the allpass loop.  c is the comb loop's
\* result.
ReverbDiffuse(c) ==
    IF c.panic THEN c
    ELSE AllpassLoop(c.st, 1, FDiv(c.l, Lit(6, 1)), FDiv(c.r, Lit(6, 1)))

\* Mix dry/wet.  a is the allpass loop's result; on a panic the code returns
\* nothing, and the input pair stands in for it.
ReverbMix(rv, in_l, in_r, a) ==
    IF a.panic THEN [st |-> a.st, l |-> in_l, r |-> in_r, panic |-> TRUE]
    ELSE LET dry == FSub(ONE, rv.mix)
             wet == FMul(rv.mix, Lit(4, 10))
         IN  [st |-> a.st,
              l |-> FAdd(FMul(in_l, dry), FMul(a.l, wet)),
              r |-> FAdd(FMul(in_r, dry), FMul(a.r, wet)),
              panic |-> FALSE]

\* A faulty reverb: enabled is not looked at.
ReverbProcessStereoNoBypass(rv, in_l, in_r) ==
    ReverbMix(rv, in_l, in_r, ReverbDiffuse(CombLoop(rv, 1, in_l, in_r, 0, 0)))

\* ReverbState::process_stereo
ReverbProcessStereo(rv, in_l, in_r) ==
    IF ~rv.enabled THEN [st |-> rv, l |-> in_l, r |-> in_r, panic |-> FALSE]
    ELSE ReverbMix(rv, in_l, in_r, ReverbDiffuse(CombLoop(rv, 1, in_l, in_r, 0, 0)))

\* -------------------------------------------------- WasmDspProcessor ----

\* WasmDspProcessor::new: no argument is rejected.
ProcessorNew(sample_rate) ==
    [sample_rate |-> sample_rate,
     eq_low |-> SetLowShelf(BiquadDefault, Lit(80, 1), 0, sample_rate),
     eq_mid |-> SetPeaking(BiquadDefault, Lit(1000, 1), 0, Lit(707, 1000), sample_rate),
     eq_high |-> SetHighShelf(BiquadDefault, Lit(10000, 1), 0, sample_rate),
     compressor |-> UpdateCoeffs(CompressorDefault, Lit(5, 1), Lit(100, 1), sample_rate),
     limiter |-> LimiterDefault,
     reverb |-> ReverbNew(sample_rate),
     eq_low_freq |-> Lit(80, 1),
     eq_mid_freq |-> Lit(1000, 1),
     eq_high_freq |-> Lit(10000, 1),
     eq_mid_q |-> Lit(707, 1000)]

\* set_eq_low / set_eq_mid / set_eq_high
\* A low-shelf setter seen half done: b0, b1, b2 of the new design with a1,
\* a2 of the set it replaces.
SetEqLowTorn(p, gain_db) ==
    [p EXCEPT !.eq_low =
        [SetLowShelf(p.eq_low, p.eq_low_freq, gain_db, p.sample_rate)
            EXCEPT !.a1 = p.eq_low.a1, !.a2 = p.eq_low.a2]]

SetEqLow(p, gain_db) ==
    [p EXCEPT !.eq_low = SetLowShelf(p.eq_low, p.eq_low_freq, gain_db, p.sample_rate)]

SetEqMid(p, gain_db) ==
    [p EXCEPT !.eq_mid =
        SetPeaking(p.eq_mid, p.eq_mid_freq, gain_db, p.eq_mid_q, p.sample_rate)]

SetEqHigh(p, gain_db) ==
    [p EXCEPT !.eq_high = SetHighShelf(p.eq_high, p.eq_high_freq, gain_db, p.sample_rate)]

\* set_eq_frequencies: the four cached settings, clamped; nothing else.
SetEqFrequencies(p, low_freq, mid_freq, high_freq, mid_q) ==
    [p EXCEPT !.eq_low_freq = Clamp(low_freq, Lit(20, 1), Lit(500, 1)),
              !.eq_mid_freq = Clamp(mid_freq, Lit(200, 1), Lit(8000, 1)),
              !.eq_high_freq = Clamp(high_freq, Lit(2000, 1), Lit(20000, 1)),
              !.eq_mid_q = Clamp(mid_q, Lit(1, 10), Lit(10, 1))]

\* set_compressor
SetCompressor(p, threshold_db, ratio, attack_ms, release_ms) ==
    [p EXCEPT !.compressor =
        UpdateCoeffs([p.compressor EXCEPT
                        !.threshold_db = Clamp(threshold_db, Lit(0 - 60, 1), 0),
                        !.ratio = Clamp(ratio, ONE, Lit(20, 1))],
                     attack_ms, release_ms, p.sample_rate)]

\* set_compressor_makeup
SetCompressorMakeup(p, gain_db) ==
    [p EXCEPT !.compressor.makeup_gain = Pow10(FDiv(gain_db, Lit(20, 1)))]

\* A faulty set_limiter: it starts the limiter over, envelope included.
SetLimiterFromDefault(p, threshold_db) ==
    [p EXCEPT !.limiter =
        [LimiterDefault EXCEPT !.threshold =
            Pow10(FDiv(Clamp(threshold_db, Lit(0 - 12, 1), 0), Lit(20, 1)))]]

\* set_limiter
SetLimiter(p, threshold_db) ==
    [p EXCEPT !.limiter.threshold =
        Pow10(FDiv(Clamp(threshold_db, Lit(0 - 12, 1), 0), Lit(20, 1)))]

\* A set_reverb that starts from empty delay lines.
SetReverbClearing(p, mix) ==
    [p EXCEPT !.reverb = [ReverbNew(p.sample_rate) EXCEPT
                             !.mix = Clamp(mix, 0, ONE),
                             !.enabled = FGt(mix, Lit(1, 1000)),
                             !.comb_feedback = p.reverb.comb_feedback]]

\* set_reverb: enabled is decided on the raw argument.
SetReverb(p, mix) ==
    [p EXCEPT !.reverb.mix = Clamp(mix, 0, ONE),
              !.reverb.enabled = FGt(mix, Lit(1, 1000))]

\* A faulty set_reverb_feedback: the argument is stored as it is.
SetReverbFeedbackUnclamped(p, feedback) ==
    [p EXCEPT !.reverb.comb_feedback = feedback]

\* set_reverb_feedback
SetReverbFeedback(p, feedback) ==
    [p EXCEPT !.reverb.comb_feedback = Clamp(feedback, 0, Lit(98, 100))]

\* A faulty reset: the filters are left as BiquadState::default() makes them,
\* not designed again.
ResetWithoutDesign(p) ==
    [p EXCEPT !.eq_low = BiquadDefault, !.eq_mid = BiquadDefault,
              !.eq_high = BiquadDefault,
              !.compressor.envelope = 0, !.limiter.envelope = 0]

\* A reset that makes the processor as new made it.
ResetToNew(p) == ProcessorNew(p.sample_rate)

\* reset
Reset(p) ==
    LET q == [p EXCEPT !.eq_low = BiquadDefault, !.eq_mid = BiquadDefault,
                       !.eq_high = BiquadDefault,
                       !.compressor.envelope = 0, !.limiter.envelope = 0]
    IN  [q EXCEPT
           !.eq_low = SetLowShelf(q.eq_low, q.eq_low_freq, 0, q.sample_rate),
           !.eq_mid = SetPeaking(q.eq_mid, q.eq_mid_freq, 0, q.eq_mid_q, q.sample_rate),
           !.eq_high = SetHighShelf(q.eq_high, q.eq_high_freq, 0, q.sample_rate)]

\* A meter reading the limiter's envelope instead of the compressor's.
GetLimiterReduction(p) == p.limiter.envelope

\* get_gain_reduction
GetGainReduction(p) == p.compressor.envelope

\* One entry of the log of a sample's way through the chain: the stage, the
\* pair it was given and the pair it returned.
StageLog(stage, in_l, in_r, o) ==
    [stage |-> stage, in |-> <<in_l, in_r>>, out |-> <<o.l, o.r>>]

\* A sample on its way through process_sample: the processor so far, the
\* running pair (l, r), whether a stage has panicked, and the log.
SampleStart(p, in_l, in_r) ==
    [st |-> p, l |-> in_l, r |-> in_r, panic |-> FALSE, chain |-> <<>>]

\* let (l, r) = <stage>.process_stereo(l, r): the running pair becomes what
\* the stage returned (o), and st is the processor with that stage's state.
Shadow(s, stage, o, st) ==
    [st |-> st, l |-> o.l, r |-> o.r, panic |-> FALSE,
     chain |-> Append(s.chain, StageLog(stage, s.l, s.r, o))]

EqLowDone(s, o) == Shadow(s, "eq_low", o, [s.st EXCEPT !.eq_low = o.st])

EqLowStage(s) == EqLowDone(s, BiquadProcessStereo(s.st.eq_low, s.l, s.r))

EqMidDone(s, o) == Shadow(s, "eq_mid", o, [s.st EXCEPT !.eq_mid = o.st])

EqMidStage(s) == EqMidDone(s, BiquadProcessStereo(s.st.eq_mid, s.l, s.r))

EqHighDone(s, o) == Shadow(s, "eq_high", o, [s.st EXCEPT !.eq_high = o.st])

EqHighStage(s) == EqHighDone(s, BiquadProcessStereo(s.st.eq_high, s.l, s.r))

CompressorDone(s, o) == Shadow(s, "compressor", o, [s.st EXCEPT !.compressor = o.st])

CompressorStage(s) == CompressorDone(s, CompressorProcessStereo(s.st.compressor, s.l, s.r))

\* A panic in the reverb ends the call with the reverb as far as it got.
ReverbDone(s, o) ==
    IF o.panic THEN [s EXCEPT !.st.reverb = o.st, !.panic = TRUE]
    ELSE Shadow(s, "reverb", o, [s.st EXCEPT !.reverb = o.st])

ReverbStage(s) == ReverbDone(s, ReverbProcessStereo(s.st.reverb, s.l, s.r))

LimiterDone(s, o) == Shadow(s, "limiter", o, [s.st EXCEPT !.limiter = o.st])

LimiterStage(s) ==
    IF s.panic THEN s
    ELSE LimiterDone(s, LimiterProcessStereo(s.st.limiter, s.l, s.r))

\* A faulty process_sample: the limiter runs before the reverb, so that the
\* reverb's output leaves the chain unlimited.
ProcessSampleLimiterBeforeReverb(p, in_l, in_r) ==
    ReverbStage(LimiterStage(CompressorStage(
        EqHighStage(EqMidStage(EqLowStage(SampleStart(p, in_l, in_r)))))))

\* process_sample: EQ low shelf, mid peak, high shelf; compressor; reverb;
\* limiter.
ProcessSample(p, in_l, in_r) ==
    LimiterStage(ReverbStage(CompressorStage(
        EqHighStage(EqMidStage(EqLowStage(SampleStart(p, in_l, in_r)))))))

\* The running result of a block call: the processor, the caller's output
\* buffers, whether the call has panicked, and two logs kept for checking:
\* the indices handed to process_sample, in call order, and each sample's
\* log of stages.
BlockStart(p, output_l, output_r) ==
    [st |-> p, output_l |-> output_l, output_r |-> output_r, panic |-> FALSE,
     order |-> <<>>, chains |-> <<>>]

\* output_l[idx] = l; output_r[idx] = r; with s what process_sample returned.
\* Every slice access is bounds-checked and panics out of bounds.
StereoStore(acc, idx, s) ==
    LET a == [acc EXCEPT !.st = s.st, !.order = Append(@, idx),
                         !.chains = Append(@, s.chain)]
    IN  IF s.panic \/ ~InBounds(acc.output_l, idx)
        THEN [a EXCEPT !.panic = TRUE]
        ELSE IF ~InBounds(acc.output_r, idx)
             THEN [a EXCEPT !.output_l[idx + 1] = s.l, !.panic = TRUE]
             ELSE [a EXCEPT !.output_l[idx + 1] = s.l, !.output_r[idx + 1] = s.r]

\* The body of both loops of process_block_stereo at index idx (from 0):
\*   let (l, r) = self.process_sample(input_l[idx], input_r[idx]);
\*   output_l[idx] = l; output_r[idx] = r;
StereoStep(acc, input_l, input_r, idx) ==
    IF acc.panic THEN acc
    ELSE IF ~InBounds(input_l, idx) \/ ~InBounds(input_r, idx)
         THEN [acc EXCEPT !.panic = TRUE]
         ELSE StereoStore(acc, idx,
                          ProcessSample(acc.st, input_l[idx + 1], input_r[idx + 1]))

\* for i in 0..4 { let idx = base + i; ... }
RECURSIVE UnrolledLoop(_, _, _, _, _)
UnrolledLoop(acc, input_l, input_r, base, i) ==
    IF i >= 4 THEN acc
    ELSE UnrolledLoop(StereoStep(acc, input_l, input_r, base + i),
                      input_l, input_r, base, i + 1)

\* for block in 0..blocks { let base = block * 4; ... }
RECURSIVE BlocksLoop(_, _, _, _, _)
BlocksLoop(acc, input_l, input_r, block, blocks) ==
    IF block >= blocks THEN acc
    ELSE BlocksLoop(UnrolledLoop(acc, input_l, input_r, block * 4, 0),
                    input_l, input_r, block + 1, blocks)

\* A faulty remainder loop: for i in 0..remainder, the indices starting over
\* at 0 instead of at len - remainder.
RECURSIVE RemainderLoopFromZero(_, _, _, _, _)
RemainderLoopFromZero(acc, input_l, input_r, i, len) ==
    IF i >= len THEN acc
    ELSE RemainderLoopFromZero(StereoStep(acc, input_l, input_r, i - 4 * (len \div 4)),
                               input_l, input_r, i + 1, len)

\* for i in (len - remainder)..len { ... }
RECURSIVE RemainderLoop(_, _, _, _, _)
RemainderLoop(acc, input_l, input_r, i, len) ==
    IF i >= len THEN acc
    ELSE RemainderLoop(StereoStep(acc, input_l, input_r, i), input_l, input_r, i + 1, len)

Min(a, b) == IF a < b THEN a ELSE b

\* A faulty length: the shorter input, the output buffers not looked at.
BlockLenOfInputs(input_l, input_r, output_l, output_r) ==
    Min(Len(input_l), Len(input_r))

\* let len = input_l.len().min(input_r.len()).min(output_l.len()).min(output_r.len())
BlockLen(input_l, input_r, output_l, output_r) ==
    Min(Min(Min(Len(input_l), Len(input_r)), Len(output_l)), Len(output_r))

\* let blocks = len / 4; let remainder = len % 4; then the two loops.
StereoLoops(acc, input_l, input_r, len) ==
    RemainderLoop(BlocksLoop(acc, input_l, input_r, 0, len \div 4),
                  input_l, input_r, len - (len % 4), len)

\* process_block_stereo
ProcessBlockStereo(p, input_l, input_r, output_l, output_r) ==
    StereoLoops(BlockStart(p, output_l, output_r), input_l, input_r,
                BlockLen(input_l, input_r, output_l, output_r))

\* output[i] = (l + r) * 0.5, with s what process_sample returned.
MonoStore(acc, i, s) ==
    LET a == [acc EXCEPT !.st = s.st, !.order = Append(@, i),
                         !.chains = Append(@, s.chain)]
    IN  IF s.panic \/ ~InBounds(acc.output_l, i)
        THEN [a EXCEPT !.panic = TRUE]
        ELSE [a EXCEPT !.output_l[i + 1] = FMul(FAdd(s.l, s.r), Lit(5, 10))]

\* A faulty loop body of process_block: the sample goes to the left channel
\* only, the right channel is given silence.
MonoStepLeftOnly(acc, input, i) ==
    IF acc.panic THEN acc
    ELSE IF ~InBounds(input, i) THEN [acc EXCEPT !.panic = TRUE]
         ELSE MonoStore(acc, i, ProcessSample(acc.st, input[i + 1], 0))

\* The body of the loop of process_block at index i:
\*   let sample = input[i];
\*   let (l, r) = self.process_sample(sample, sample); output[i] = (l + r) * 0.5;
MonoStep(acc, input, i) ==
    IF acc.panic THEN acc
    ELSE IF ~InBounds(input, i) THEN [acc EXCEPT !.panic = TRUE]
         ELSE MonoStore(acc, i, ProcessSample(acc.st, input[i + 1], input[i + 1]))

RECURSIVE MonoLoop(_, _, _, _)
MonoLoop(acc, input, i, len) ==
    IF i >= len THEN acc ELSE MonoLoop(MonoStep(acc, input, i), input, i + 1, len)

\* process_block (mono): the one output buffer is kept in output_l.
ProcessBlock(p, input, output) ==
    MonoLoop(BlockStart(p, output, <<>>), input, 0, Min(Len(input), Len(output)))

\* ------------------------------------------------------------ bounds ----

\* The longest buffer a caller passes to a block call.
MaxLen == 5

\* The number of block calls in a run.
MaxCalls == 2

\* The number of setter and metering calls in a run.
MaxSets == 1

\* The number of reset calls in a run.
MaxResets == 1

\* The number of samples given to single stages in a run of the stages.
MaxStageCalls == 3

\* ------------------------------------------------------------ inputs ----

\* The sample rates a processor is constructed with.  238 Hz is the smallest
\* whole rate at which every delay buffer has at least one element and comb
\* 1 is longer on the left (8) than on the right (7), as it is at 48 kHz
\* (1617 against 1601); at 236 Hz comb 3 is shorter on the left (6 against
\* 7) and no comb is longer.
ValidRates == {238}

\* A rate the documentation calls invalid.
InvalidRates == {0}

\* Two stereo test signals, by sample position (from 1): an impulse loud
\* enough to reach the limiter above its threshold through the default
\* compressor, and a pattern that differs between the channels.
Signals == {"impulse", "pattern"}

SignalL(sig, i) ==
    IF sig = "impulse" THEN (IF i = 1 THEN Lit(16, 1) ELSE 0)
    ELSE (((i * 7) % 5) - 2) * Lit(25, 100)

SignalR(sig, i) ==
    IF sig = "impulse" THEN (IF i = 1 THEN Lit(5, 10) ELSE 0)
    ELSE (((i * 3) % 4) - 1) * Lit(25, 100)

InputL(sig, n) == [i \in 1..n |-> SignalL(sig, i)]

InputR(sig, n) == [i \in 1..n |-> SignalR(sig, i)]

\* What a caller's output buffer holds before the call.
Stale == Lit(7777, 10000)

OutputBuffer(n) == [i \in 1..n |-> Stale]

\* The four buffer lengths of a stereo call (input_l, input_r, output_l,
\* output_r): all the same, or the longest with one of them two short, or
\* with the left input empty.
StereoLens ==
    { <<n, n, n, n>> : n \in 0..MaxLen } \cup
    { [k \in 1..4 |-> IF k = which THEN MaxLen - 2 ELSE MaxLen] : which \in 1..4 } \cup
    { <<0, MaxLen, MaxLen, MaxLen>> }

\* The two buffer lengths of a mono call (input, output).
MonoLens ==
    { <<n, n>> : n \in 0..MaxLen } \cup { <<MaxLen, MaxLen - 2>>, <<MaxLen - 2, MaxLen>> }

\* Arguments of the setters, in and out of the documented ranges.
GainArgs == {0, Lit(6, 1)}

FrequencyArgs ==
    { <<Lit(100, 1), Lit(500, 1), Lit(2400, 1), ONE>>,
      <<Lit(10, 1), Lit(500, 1), Lit(2400, 1), Lit(20, 1)>> }

CompressorArgs ==
    { <<Lit(10, 1), Lit(50, 1), Lit(5, 1), Lit(100, 1)>>,
      <<Lit(0 - 30, 1), Lit(2, 1), ONE, Lit(50, 1)>>,
      <<NaN, NaN, Lit(5, 1), Lit(100, 1)>> }

MakeupArgs == {Lit(6, 1)}

LimiterArgs == {Lit(0 - 6, 1), Lit(3, 1), NaN}

ReverbArgs == {Lit(5, 10), Lit(5, 10000), Lit(15, 10)}

FeedbackArgs == {Lit(5, 10), Lit(15, 10)}

\* ------------------------------------------------------------- state ----

VARIABLES
    proc,       \* the instance the calls are made on: the WasmDspProcessor
                \* (the PhaseVocoder, the GranularSynth in their own
                \* specifications)
    panicked,   \* a call has panicked: the instance is not used again
    call,       \* the last call: its name, its arguments, what it returned
    output_l,   \* the caller's output buffers after the last call (empty
    output_r,   \* when it was not a block call)
    eq_gain,    \* the gain last designed into each band: <<low, mid, high>>
    eq_flat,    \* no set_eq_low/mid/high call has had a gain other than 0 dB
    fresh,      \* a second processor given the same setter calls and no audio
    clean,      \* proc has processed no sample since it was made or reset
    ncalls,     \* block calls so far
    nsets,      \* setter and metering calls so far
    nresets     \* reset calls so far

vars == <<proc, panicked, call, output_l, output_r, eq_gain, eq_flat, fresh, clean,
          ncalls, nsets, nresets>>

Call(op, args, input_l, input_r, buf_l, buf_r, ret) ==
    [op |-> op, args |-> args, input_l |-> input_l, input_r |-> input_r,
     output_l |-> buf_l, output_r |-> buf_r, ret |-> ret]

\* The state after new(sample_rate).
Constructed(sample_rate) ==
    /\ proc = ProcessorNew(sample_rate)
    /\ fresh = ProcessorNew(sample_rate)
    /\ call = Call("new", <<sample_rate>>, <<>>, <<>>, <<>>, <<>>, 0)
    /\ panicked = FALSE
    /\ output_l = <<>>
    /\ output_r = <<>>
    /\ eq_gain = <<0, 0, 0>>
    /\ eq_flat = TRUE
    /\ clean = TRUE
    /\ ncalls = 0
    /\ nsets = 0
    /\ nresets = 0

\* Construction with a sample rate the documentation allows.
Init == \E sample_rate \in ValidRates : Constructed(sample_rate)

\* Construction with any sample rate the constructor is given.
InitAnyRate == \E sample_rate \in ValidRates \cup InvalidRates : Constructed(sample_rate)

\* A setter call: the same setter on proc and on fresh, nothing else.
Setter(op, args, p, f) ==
    /\ ~panicked
    /\ nsets < MaxSets
    /\ proc' = p
    /\ fresh' = f
    /\ call' = Call(op, args, <<>>, <<>>, <<>>, <<>>, 0)
    /\ output_l' = <<>>
    /\ output_r' = <<>>
    /\ nsets' = nsets + 1
    /\ UNCHANGED <<panicked, clean, ncalls, nresets>>

set_eq_low ==
    \E gain_db \in GainArgs :
        /\ Setter("set_eq_low", <<gain_db>>, SetEqLow(proc, gain_db),
                  SetEqLow(fresh, gain_db))
        /\ eq_gain' = [eq_gain EXCEPT ![1] = gain_db]
        /\ eq_flat' = (eq_flat /\ gain_db = 0)

set_eq_mid ==
    \E gain_db \in GainArgs :
        /\ Setter("set_eq_mid", <<gain_db>>, SetEqMid(proc, gain_db),
                  SetEqMid(fresh, gain_db))
        /\ eq_gain' = [eq_gain EXCEPT ![2] = gain_db]
        /\ eq_flat' = (eq_flat /\ gain_db = 0)

set_eq_high ==
    \E gain_db \in GainArgs :
        /\ Setter("set_eq_high", <<gain_db>>, SetEqHigh(proc, gain_db),
                  SetEqHigh(fresh, gain_db))
        /\ eq_gain' = [eq_gain EXCEPT ![3] = gain_db]
        /\ eq_flat' = (eq_flat /\ gain_db = 0)

set_eq_frequencies ==
    \E a \in FrequencyArgs :
        /\ Setter("set_eq_frequencies", a,
                  SetEqFrequencies(proc, a[1], a[2], a[3], a[4]),
                  SetEqFrequencies(fresh, a[1], a[2], a[3], a[4]))
        /\ UNCHANGED <<eq_gain, eq_flat>>

set_compressor ==
    \E a \in CompressorArgs :
        /\ Setter("set_compressor", a,
                  SetCompressor(proc, a[1], a[2], a[3], a[4]),
                  SetCompressor(fresh, a[1], a[2], a[3], a[4]))
        /\ UNCHANGED <<eq_gain, eq_flat>>

set_compressor_makeup ==
    \E gain_db \in MakeupArgs :
        /\ Setter("set_compressor_makeup", <<gain_db>>,
                  SetCompressorMakeup(proc, gain_db),
                  SetCompressorMakeup(fresh, gain_db))
        /\ UNCHANGED <<eq_gain, eq_flat>>

set_limiter ==
    \E threshold_db \in LimiterArgs :
        /\ Setter("set_limiter", <<threshold_db>>, SetLimiter(proc, threshold_db),
                  SetLimiter(fresh, threshold_db))
        /\ UNCHANGED <<eq_gain, eq_flat>>

set_reverb ==
    \E mix \in ReverbArgs :
        /\ Setter("set_reverb", <<mix>>, SetReverb(proc, mix), SetReverb(fresh, mix))
        /\ UNCHANGED <<eq_gain, eq_flat>>

set_reverb_feedback ==
    \E feedback \in FeedbackArgs :
        /\ Setter("set_reverb_feedback", <<feedback>>, SetReverbFeedback(proc, feedback),
                  SetReverbFeedback(fresh, feedback))
        /\ UNCHANGED <<eq_gain, eq_flat>>

reset ==
    /\ ~panicked
    /\ nresets < MaxResets
    /\ proc' = Reset(proc)
    /\ clean' = TRUE
    /\ eq_gain' = <<0, 0, 0>>
    /\ call' = Call("reset", <<>>, <<>>, <<>>, <<>>, <<>>, 0)
    /\ output_l' = <<>>
    /\ output_r' = <<>>
    /\ nresets' = nresets + 1
    /\ UNCHANGED <<panicked, eq_flat, fresh, ncalls, nsets>>

get_gain_reduction ==
    /\ ~panicked
    /\ nsets < MaxSets
    /\ call' = Call("get_gain_reduction", <<>>, <<>>, <<>>, <<>>, <<>>,
                    GetGainReduction(proc))
    /\ output_l' = <<>>
    /\ output_r' = <<>>
    /\ nsets' = nsets + 1
    /\ UNCHANGED <<proc, panicked, eq_gain, eq_flat, fresh, clean, ncalls, nresets>>

\* The state after a block call that ended as res.
AfterBlock(res) ==
    /\ proc' = res.st
    /\ panicked' = res.panic
    /\ output_l' = res.output_l
    /\ output_r' = res.output_r
    /\ clean' = (clean /\ res.order = <<>>)
    /\ ncalls' = ncalls + 1
    /\ UNCHANGED <<eq_gain, eq_flat, fresh, nsets, nresets>>

process_block_stereo ==
    /\ ~panicked
    /\ ncalls < MaxCalls
    /\ \E sig \in Signals, lens \in StereoLens :
          LET input_l == InputL(sig, lens[1])
              input_r == InputR(sig, lens[2])
              buf_l == OutputBuffer(lens[3])
              buf_r == OutputBuffer(lens[4])
          IN  /\ call' = Call("process_block_stereo", <<>>, input_l, input_r,
                              buf_l, buf_r, 0)
              /\ AfterBlock(ProcessBlockStereo(proc, input_l, input_r, buf_l, buf_r))

process_block ==
    /\ ~panicked
    /\ ncalls < MaxCalls
    /\ \E lens \in MonoLens :
          LET input == InputL("pattern", lens[1])
              buf == OutputBuffer(lens[2])
          IN  /\ call' = Call("process_block", <<>>, input, <<>>, buf, <<>>, 0)
              /\ AfterBlock(ProcessBlock(proc, input, buf))

Next ==
    \/ set_eq_low
    \/ set_eq_mid
    \/ set_eq_high
    \/ set_eq_frequencies
    \/ set_compressor
    \/ set_compressor_makeup
    \/ set_limiter
    \/ set_reverb
    \/ set_reverb_feedback
    \/ reset
    \/ get_gain_reduction
    \/ process_block_stereo
    \/ process_block

\* The processor from a valid construction on.
Spec == Init /\ [][Next]_vars

\* The processor from any construction on.
SpecAnyRate == InitAnyRate /\ [][Next]_vars

\* ------------------------------------------------------- properties ----

\* A step of the processor, as the properties below read it: the processor
\* before it (proc), the call made (call'), and what the call left
\* (proc', output_l', output_r', panicked').
Step(p, c, q, out_l, out_r, failed) ==
    [p |-> p, c |-> c, q |-> q, out_l |-> out_l, out_r |-> out_r, failed |-> failed]

Stereo(t) == t.c.op = "process_block_stereo"

Mono(t) == t.c.op = "process_block"

\* The block call of step t, run again on the processor it started from.
StereoResult(t) ==
    ProcessBlockStereo(t.p, t.c.input_l, t.c.input_r, t.c.output_l, t.c.output_r)

MonoResult(t) == ProcessBlock(t.p, t.c.input_l, t.c.output_l)

\* C1: once a processor is constructed with a valid sample rate, no sequence
\* of setter and block calls panics.  The code violates it: comb 1's one
\* cursor runs modulo the length of the left buffer, which is longer than
\* the right buffer the same cursor indexes.
NoCallPanics == ~panicked

\* The order of the stages.
StageOrder == <<"eq_low", "eq_mid", "eq_high", "compressor", "reverb", "limiter">>

\* c is the log of one sample given the pair in: the stages in StageOrder,
\* each given what the one before it returned.
ChainInOrder(c, in) ==
    /\ Len(c) <= Len(StageOrder)
    /\ \A j \in 1..Len(c) :
          /\ c[j].stage = StageOrder[j]
          /\ c[j].in = (IF j = 1 THEN in ELSE c[j - 1].out)

\* What step t wrote at position i (from 1) is the pair out the limiter
\* returned: each channel in a stereo call, their mean in a mono call.
Written(t, out, i) ==
    IF Stereo(t) THEN t.out_l[i] = out[1] /\ t.out_r[i] = out[2]
    ELSE t.out_l[i] = FMul(FAdd(out[1], out[2]), Lit(5, 10))

\* The pair step t gave process_sample at position i (from 1).
Given(t, i) ==
    <<t.c.input_l[i], IF Stereo(t) THEN t.c.input_r[i] ELSE t.c.input_l[i]>>

\* Every sample of step t, whose block call ended as res, went through the
\* stages in StageOrder and, unless its reverb panicked, through all six,
\* and what the limiter returned was written.
StagesInOrder(t, res) ==
    \A k \in 1..Len(res.chains) :
        /\ ChainInOrder(res.chains[k], Given(t, res.order[k] + 1))
        /\ \/ res.panic /\ k = Len(res.chains)
           \/ /\ Len(res.chains[k]) = Len(StageOrder)
              /\ Written(t, res.chains[k][Len(StageOrder)].out, res.order[k] + 1)

\* The stages applied one inside the other to the pair o, each in the state
\* processor p holds it in.
ThroughEqLow(p, o) == BiquadProcessStereo(p.eq_low, o.l, o.r)

ThroughEqMid(p, o) == BiquadProcessStereo(p.eq_mid, o.l, o.r)

ThroughEqHigh(p, o) == BiquadProcessStereo(p.eq_high, o.l, o.r)

ThroughCompressor(p, o) == CompressorProcessStereo(p.compressor, o.l, o.r)

ThroughReverb(p, o) == ReverbProcessStereo(p.reverb, o.l, o.r)

ThroughLimiter(p, o) == LimiterProcessStereo(p.limiter, o.l, o.r)

ThroughChain(p, in_l, in_r) ==
    ThroughLimiter(p, ThroughReverb(p, ThroughCompressor(p,
        ThroughEqHigh(p, ThroughEqMid(p, ThroughEqLow(p, [l |-> in_l, r |-> in_r]))))))

\* The first sample step t wrote is o.
FirstWritten(t, o) == t.out_l[1] = o.l /\ t.out_r[1] = o.r

\* The length a stereo call c processes.
CalledLen(c) == BlockLen(c.input_l, c.input_r, c.output_l, c.output_r)

\* The first sample a stereo call wrote is the limiter's output of the
\* reverb's output of ... of the low shelf's output of the first input pair.
LimiterLast(t) ==
    (Stereo(t) /\ ~t.failed /\ CalledLen(t.c) > 0)
        => FirstWritten(t, ThroughChain(t.p, t.c.input_l[1], t.c.input_r[1]))

FixedStageOrderStep(t) ==
    /\ Stereo(t) => StagesInOrder(t, StereoResult(t))
    /\ Mono(t) => StagesInOrder(t, MonoResult(t))
    /\ LimiterLast(t)

\* C2: every sample passes through low shelf, peak, high shelf, compressor,
\* reverb, limiter in that order, each stage given the output of the one
\* before it, and what is written to the output is what the limiter
\* returned, whatever setter was called before.
FixedStageOrder ==
    [][FixedStageOrderStep(Step(proc, call', proc', output_l', output_r', panicked'))]_vars

\* A stereo call of five samples returned after a setter had been called,
\* with the reverb enabled.
FixedStageOrderWitness ==
    /\ call.op = "process_block_stereo"
    /\ ~panicked
    /\ nsets = 1
    /\ Len(output_l) = MaxLen
    /\ output_l[MaxLen] # Stale
    /\ proc.reverb.enabled

\* n process_sample steps on indices 0, 1, ..., n - 1 in ascending order,
\* from the state acc = [st, l, r, panic]: the processor, the outputs so
\* far, whether a step has panicked.
SampleStepped(acc, s) ==
    IF s.panic THEN [acc EXCEPT !.st = s.st, !.panic = TRUE]
    ELSE [st |-> s.st, l |-> Append(acc.l, s.l), r |-> Append(acc.r, s.r),
          panic |-> FALSE]

RECURSIVE SampleSteps(_, _, _, _, _)
SampleSteps(acc, input_l, input_r, i, n) ==
    IF i >= n \/ acc.panic THEN acc
    ELSE SampleSteps(SampleStepped(acc, ProcessSample(acc.st, input_l[i + 1],
                                                      input_r[i + 1])),
                     input_l, input_r, i + 1, n)

SampleStepsStart(p) == [st |-> p, l |-> <<>>, r |-> <<>>, panic |-> FALSE]

\* Step t's stereo call did what the sample steps ref did.
SameAsSteps(t, ref) ==
    /\ t.failed = ref.panic
    /\ t.q = ref.st
    /\ \A i \in 1..Len(ref.l) : t.out_l[i] = ref.l[i] /\ t.out_r[i] = ref.r[i]

\* The first k and the other n - k of the first n elements of q.
FirstPart(q, k) == SubSeq(q, 1, k)

RestPart(q, k, n) == SubSeq(q, k + 1, n)

\* The call on the first k samples of call c, on processor p.
FirstBlock(p, c, k) ==
    ProcessBlockStereo(p, FirstPart(c.input_l, k), FirstPart(c.input_r, k),
                       FirstPart(c.output_l, k), FirstPart(c.output_r, k))

\* The call on the samples of call c from k on, made after the call on the
\* first k samples ended as first.
SecondBlock(first, c, k, n) ==
    ProcessBlockStereo(first.st, RestPart(c.input_l, k, n), RestPart(c.input_r, k, n),
                       RestPart(c.output_l, k, n), RestPart(c.output_r, k, n))

\* Step t's stereo call did what the two calls did that ended as first and
\* second.
SameAsTwoBlocks(t, first, second, k, n) ==
    /\ t.q = second.st
    /\ ~second.panic
    /\ FirstPart(t.out_l, k) = first.output_l
    /\ FirstPart(t.out_r, k) = first.output_r
    /\ RestPart(t.out_l, k, n) = second.output_l
    /\ RestPart(t.out_r, k, n) = second.output_r

SameAsSplit(t, first, k, n) ==
    /\ ~first.panic
    /\ SameAsTwoBlocks(t, first, SecondBlock(first, t.c, k, n), k, n)

\* Step t's stereo call of n samples did what a call on its first k samples
\* and a call on the rest do.
SplitAt(t, k, n) == SameAsSplit(t, FirstBlock(t.p, t.c, k), k, n)

\* The indices 0, 1, ..., n - 1.
Ascending(n) == [i \in 1..n |-> i - 1]

BlockIsSampleStepsStep(t) ==
    Stereo(t) =>
        /\ SameAsSteps(t, SampleSteps(SampleStepsStart(t.p), t.c.input_l, t.c.input_r,
                                      0, CalledLen(t.c)))
        /\ ~t.failed => /\ StereoResult(t).order = Ascending(CalledLen(t.c))
                        /\ \A k \in 0..CalledLen(t.c) : SplitAt(t, k, CalledLen(t.c))

\* C3: a stereo call over n samples does what n process_sample steps on the
\* indices 0, 1, ..., n - 1 in ascending order do, each index once, whatever
\* n mod 4 is; and a call that returns does what two calls do that split
\* its samples at any point k.
BlockIsSampleSteps ==
    [][BlockIsSampleStepsStep(Step(proc, call', proc', output_l', output_r', panicked'))]_vars

\* A stereo call of five samples (one unrolled block and a remainder of one)
\* returned on a processor that had processed samples before.
BlockIsSampleStepsWitness ==
    /\ call.op = "process_block_stereo"
    /\ ~panicked
    /\ ncalls = MaxCalls
    /\ Len(call.input_l) = MaxLen
    /\ Len(output_l) = MaxLen
    /\ Len(output_r) = MaxLen
    /\ output_l[MaxLen] # Stale
    /\ proc.eq_low.x2_l # 0

\* The shortest of the four buffers of call c.
ShortestLen(c) ==
    CHOOSE n \in {Len(c.input_l), Len(c.input_r), Len(c.output_l), Len(c.output_r)} :
        \A m \in {Len(c.input_l), Len(c.input_r), Len(c.output_l), Len(c.output_r)} :
            n <= m

\* Step t's stereo call wrote the n outputs of the sample steps ref, left
\* the rest of both output buffers as it was, and left the processor as the
\* n steps leave it; it failed only if one of the steps panicked.
ProcessedExactly(t, ref, n) ==
    /\ t.failed = ref.panic
    /\ ~t.failed =>
          /\ t.q = ref.st
          /\ Len(ref.l) = n /\ Len(ref.r) = n
          /\ Len(t.out_l) = Len(t.c.output_l)
          /\ Len(t.out_r) = Len(t.c.output_r)
          /\ \A i \in 1..n : t.out_l[i] = ref.l[i] /\ t.out_r[i] = ref.r[i]
          /\ \A i \in (n + 1)..Len(t.out_l) : t.out_l[i] = t.c.output_l[i]
          /\ \A i \in (n + 1)..Len(t.out_r) : t.out_r[i] = t.c.output_r[i]

\* Step t's stereo call with an empty buffer did nothing.
NothingOnEmpty(t) ==
    /\ ~t.failed
    /\ t.q = t.p
    /\ t.out_l = t.c.output_l
    /\ t.out_r = t.c.output_r

ShortestLengthStep(t) ==
    Stereo(t) =>
        /\ ProcessedExactly(t, SampleSteps(SampleStepsStart(t.p), t.c.input_l,
                                           t.c.input_r, 0, ShortestLen(t.c)),
                            ShortestLen(t.c))
        /\ ShortestLen(t.c) = 0 => NothingOnEmpty(t)

\* C4: a stereo call processes exactly len = the shortest of its four
\* buffers: it writes the outputs of len sample steps at the indices below
\* len, leaves the output elements from len on unchanged, advances the
\* processor by len samples, and fails on no lengths (only where a sample
\* step itself panics); with a buffer empty it writes nothing, leaves the
\* processor unchanged and does not fail.
ShortestLengthProcessed ==
    [][ShortestLengthStep(Step(proc, call', proc', output_l', output_r', panicked'))]_vars

\* A stereo call returned whose right input was two shorter than its other
\* buffers: the outputs up to the shorter length are written, the rest not.
ShortestLengthProcessedWitness ==
    /\ call.op = "process_block_stereo"
    /\ ~panicked
    /\ Len(call.input_r) = MaxLen - 2
    /\ Len(call.output_l) = MaxLen
    /\ output_l[MaxLen - 2] # Stale
    /\ output_l[MaxLen - 1] = Stale
    /\ output_r[MaxLen] = Stale

\* C5: construction with an invalid sample rate is an error, so that no
\* processor with a sample rate <= 0, whose delay buffers are empty, exists.
\* The code violates it: new validates nothing.
NoInvalidProcessor ==
    /\ proc.sample_rate > 0
    /\ \A i \in 1..6 : /\ Len(proc.reverb.comb_buffers_l[i]) > 0
                       /\ Len(proc.reverb.comb_buffers_r[i]) > 0
    /\ \A i \in 1..4 : /\ Len(proc.reverb.ap_buffers_l[i]) > 0
                       /\ Len(proc.reverb.ap_buffers_r[i]) > 0

\* Everything of processor p that a setter sets: what is not signal history.
Settings(p) ==
    [sample_rate |-> p.sample_rate,
     eq |-> <<Coeffs(p.eq_low), Coeffs(p.eq_mid), Coeffs(p.eq_high)>>,
     cache |-> <<p.eq_low_freq, p.eq_mid_freq, p.eq_high_freq, p.eq_mid_q>>,
     compressor |-> <<p.compressor.threshold_db, p.compressor.ratio,
                      p.compressor.attack_coeff, p.compressor.release_coeff,
                      p.compressor.makeup_gain>>,
     limiter |-> <<p.limiter.threshold, p.limiter.release_coeff>>,
     reverb |-> <<p.reverb.mix, p.reverb.enabled, p.reverb.comb_feedback,
                  p.reverb.ap_feedback>>]

\* Step t's stereo call wrote what the call that ended as res wrote.
SameOutputs(t, res) ==
    /\ ~res.panic
    /\ t.out_l = res.output_l
    /\ t.out_r = res.output_r

\* Step t is a stereo call on a processor that has processed nothing since
\* its reset (untouched) and f is the processor that was given the same
\* setter calls and no signal: the call writes what it writes on f.
ResetIsFreshStep(t, f, untouched) ==
    (Stereo(t) /\ untouched /\ ~t.failed /\ Settings(t.p) = Settings(f))
        => SameOutputs(t, ProcessBlockStereo(f, t.c.input_l, t.c.input_r,
                                             t.c.output_l, t.c.output_r))

\* C6: of two processors with the same sample rate and the same setter
\* calls (EQ gains at 0 dB), one of which has processed a signal and was then
\* reset, both write the same outputs for the same input.  The code violates
\* it: reset leaves the reverb's delay buffers and cursors as they are.
ResetIsFresh ==
    [][ResetIsFreshStep(Step(proc, call', proc', output_l', output_r', panicked'),
                        fresh, clean /\ eq_flat)]_vars

\* The coefficient sets of the flat (0 dB) designs at the settings p caches.
FlatLow(p) == Coeffs(SetLowShelf(BiquadDefault, p.eq_low_freq, 0, p.sample_rate))

FlatMid(p) ==
    Coeffs(SetPeaking(BiquadDefault, p.eq_mid_freq, 0, p.eq_mid_q, p.sample_rate))

FlatHigh(p) == Coeffs(SetHighShelf(BiquadDefault, p.eq_high_freq, 0, p.sample_rate))

NoHistory == <<0, 0, 0, 0, 0, 0, 0, 0>>

\* C7: after reset returns, every EQ band's history is 0 on both channels,
\* the compressor's and the limiter's envelope are 0, and every band's
\* coefficients are those of the 0 dB design at the cached frequency and Q.
ResetClears ==
    call.op = "reset" =>
        /\ History(proc.eq_low) = NoHistory
        /\ History(proc.eq_mid) = NoHistory
        /\ History(proc.eq_high) = NoHistory
        /\ proc.compressor.envelope = 0
        /\ proc.limiter.envelope = 0
        /\ Coeffs(proc.eq_low) = FlatLow(proc)
        /\ Coeffs(proc.eq_mid) = FlatMid(proc)
        /\ Coeffs(proc.eq_high) = FlatHigh(proc)

\* reset returned on a processor that had processed samples with a band's
\* gain set to other than 0 dB.
ResetClearsWitness ==
    /\ call.op = "reset"
    /\ ~eq_flat
    /\ ncalls > 0
    /\ nsets > 0
    /\ eq_gain = <<0, 0, 0>>

\* C8: in every state each band's coefficients are the design from the
\* cached frequency (and Q), the band's last gain and the sample rate.  The
\* code violates it: set_eq_frequencies caches the new settings and designs
\* nothing.
CoefficientsFollowSettings ==
    /\ Coeffs(proc.eq_low) =
          Coeffs(SetLowShelf(BiquadDefault, proc.eq_low_freq, eq_gain[1],
                             proc.sample_rate))
    /\ Coeffs(proc.eq_mid) =
          Coeffs(SetPeaking(BiquadDefault, proc.eq_mid_freq, eq_gain[2],
                            proc.eq_mid_q, proc.sample_rate))
    /\ Coeffs(proc.eq_high) =
          Coeffs(SetHighShelf(BiquadDefault, proc.eq_high_freq, eq_gain[3],
                              proc.sample_rate))

\* The parameter setters.
Setters ==
    {"set_eq_low", "set_eq_mid", "set_eq_high", "set_eq_frequencies",
     "set_compressor", "set_compressor_makeup", "set_limiter", "set_reverb",
     "set_reverb_feedback"}

\* The signal history of processor p.
SignalHistory(p) ==
    [eq |-> <<History(p.eq_low), History(p.eq_mid), History(p.eq_high)>>,
     compressor |-> p.compressor.envelope,
     limiter |-> p.limiter.envelope,
     comb |-> <<p.reverb.comb_buffers_l, p.reverb.comb_buffers_r, p.reverb.comb_indices>>,
     ap |-> <<p.reverb.ap_buffers_l, p.reverb.ap_buffers_r, p.reverb.ap_indices>>]

\* C9: no parameter setter changes any signal history: the biquads' x1, x2,
\* y1, y2, the compressor's and the limiter's envelope, the reverb's delay
\* buffers and cursors.
SettersKeepHistory ==
    [][call'.op \in Setters => SignalHistory(proc') = SignalHistory(proc)]_vars

\* set_limiter returned on a processor whose limiter had been driven over
\* its threshold and whose filters hold samples.
SettersKeepHistoryWitness ==
    /\ call.op = "set_limiter"
    /\ proc.limiter.envelope > 0
    /\ proc.eq_mid.x1_l # 0
    /\ proc.compressor.envelope # 0

\* x is a number in [lo, hi].
InRange(x, lo, hi) == ~IsNaN(x) /\ lo <= x /\ x <= hi

\* C10: in every state the compressor's threshold_db is in [-60, 0] and its
\* ratio in [1, 20].  The code violates it: f32::clamp returns NaN for NaN,
\* so set_compressor stores a NaN threshold or ratio as it is.
CompressorInRange ==
    /\ InRange(proc.compressor.threshold_db, Lit(0 - 60, 1), 0)
    /\ InRange(proc.compressor.ratio, ONE, Lit(20, 1))

\* C11: in every state the limiter's threshold is a linear value in (0, 1].
\* The code violates it: set_limiter clamps with f32::clamp, which returns
\* NaN for NaN, and 10^(NaN / 20) is NaN.
LimiterThresholdLinear ==
    /\ ~IsNaN(proc.limiter.threshold)
    /\ 0 < proc.limiter.threshold
    /\ proc.limiter.threshold <= ONE

\* C12: in every state, after any set_reverb and set_reverb_feedback calls
\* with finite arguments, the reverb's mix is in [0, 1], enabled is true
\* exactly when mix > 0.001, and comb_feedback is in [0, 0.98].
ReverbParametersInRange ==
    /\ InRange(proc.reverb.mix, 0, ONE)
    /\ proc.reverb.enabled = FGt(proc.reverb.mix, Lit(1, 1000))
    /\ InRange(proc.reverb.comb_feedback, 0, Lit(98, 100))

\* set_reverb or set_reverb_feedback returned with an argument above the
\* range, which is stored as the upper end of the range.
ReverbParametersInRangeWitness ==
    \/ /\ call.op = "set_reverb"
       /\ call.args[1] > ONE
       /\ proc.reverb.mix = ONE
       /\ proc.reverb.enabled
    \/ /\ call.op = "set_reverb_feedback"
       /\ call.args[1] > ONE
       /\ proc.reverb.comb_feedback = Lit(98, 100)

\* The shorter of the two buffers of mono call c.
MonoLen(c) == IF Len(c.input_l) <= Len(c.output_l) THEN Len(c.input_l) ELSE Len(c.output_l)

\* Step t's mono call did what the stereo call that ended as res did, which
\* was given the mono input as both inputs: it wrote the mean of the two
\* outputs at every index below the shorter length and nothing above, and
\* left the processor as the stereo call leaves it.
SameAsDuplicated(t, res) ==
    /\ t.failed = res.panic
    /\ ~t.failed =>
          /\ t.q = res.st
          /\ Len(t.out_l) = Len(t.c.output_l)
          /\ \A i \in 1..MonoLen(t.c) :
                t.out_l[i] = FDiv(FAdd(res.output_l[i], res.output_r[i]), Lit(2, 1))
          /\ \A i \in (MonoLen(t.c) + 1)..Len(t.out_l) : t.out_l[i] = t.c.output_l[i]

MonoIsDuplicatedStereoStep(t) ==
    Mono(t) => SameAsDuplicated(t, ProcessBlockStereo(t.p, t.c.input_l, t.c.input_l,
                                                      t.c.output_l, t.c.output_l))

\* C13: a mono call writes, at every index below the shorter of its two
\* buffers, (l + r) / 2 of the pair the stereo chain returns for the sample
\* given as both channels, and leaves the processor as the stereo call with
\* the same buffer as left and right input leaves it.
MonoIsDuplicatedStereo ==
    [][MonoIsDuplicatedStereoStep(Step(proc, call', proc', output_l', output_r',
                                       panicked'))]_vars

\* A mono call returned whose output buffer was two shorter than its input,
\* on a processor holding the history of an earlier call.
MonoIsDuplicatedStereoWitness ==
    /\ call.op = "process_block"
    /\ ~panicked
    /\ ncalls = MaxCalls
    /\ Len(call.input_l) = MaxLen
    /\ Len(output_l) = MaxLen - 2
    /\ output_l[MaxLen - 2] # Stale
    /\ proc.eq_low.x1_l = call.input_l[MaxLen - 2]
    /\ proc.eq_low.x1_r = call.input_l[MaxLen - 2]

\* The tolerance of a comparison of samples: the model's resolution, the
\* smallest step above the 1e-5 the documentation gives.
Tolerance == Lit(1, 10000)

\* a and b are numbers no further apart than Tolerance.
Near(a, b) == ~IsNaN(a) /\ ~IsNaN(b) /\ Abs(a - b) <= Tolerance

\* Step t is a stereo call on a processor as new made it: what it wrote is
\* its input, within Tolerance.
OutputIsInputStep(t) ==
    (Stereo(t) /\ ~t.failed /\ t.p = ProcessorNew(t.p.sample_rate))
        => \A i \in 1..ShortestLen(t.c) :
              /\ Near(t.out_l[i], t.c.input_l[i])
              /\ Near(t.out_r[i], t.c.input_r[i])

\* C14: with the three EQ gains at 0 dB, the output of a stereo call on a
\* freshly constructed processor equals its input within tolerance, for any
\* input.  The code violates it: the compressor, at its default threshold
\* of -24 dB and ratio 4, and the limiter are part of the chain.
FlatEqOutputIsInput ==
    [][OutputIsInputStep(Step(proc, call', proc', output_l', output_r', panicked'))]_vars

\* ----------------------------------------------------------- stages ----

\* The stages of the chain one by one: a sample pair is given to the
\* compressor, the limiter or the reverb of the processor alone, as
\* process_sample gives it the running pair.

\* A processor whose reverb processed a block with mix 0.5 and was then
\* disabled.
DisabledWithContent ==
    SetReverb(ProcessBlockStereo(SetReverb(ProcessorNew(238), Lit(5, 10)),
                                 InputL("pattern", MaxLen), InputR("pattern", MaxLen),
                                 OutputBuffer(MaxLen), OutputBuffer(MaxLen)).st,
              0)

\* The processors the stages are taken from: a new one, one whose reverb
\* has processed a block with mix 0.5, and one whose reverb was disabled
\* after that.
StageProcessors ==
    { ProcessorNew(238),
      ProcessBlockStereo(SetReverb(ProcessorNew(238), Lit(5, 10)),
                         InputL("impulse", MaxLen), InputR("impulse", MaxLen),
                         OutputBuffer(MaxLen), OutputBuffer(MaxLen)).st,
      DisabledWithContent }

\* The sample pairs given to the compressor: silence, a pair under the
\* default threshold of -24 dB (0.0631), a pair over it, a pair at 0 dB.
CompressorInputs ==
    { <<0, 0>>, <<Lit(5, 100), Lit(0 - 3, 100)>>, <<Lit(5, 10), Lit(2, 10)>>,
      <<ONE, Lit(0 - 5, 10)>> }

\* The sample pairs given to the limiter: under the threshold, the constant
\* 1.0, and two peaks over the threshold, the second a little lower than
\* the first.
LimiterInputs ==
    { <<Lit(5, 10), Lit(0 - 3, 10)>>, <<ONE, ONE>>, <<Lit(2, 1), Lit(0 - 2, 1)>>,
      <<Lit(1998, 1000), Lit(1998, 1000)>> }

\* The sample pairs given to the low shelf.
BiquadInputs == { <<Lit(5, 10), Lit(0 - 25, 100)>>, <<ONE, 0>> }

\* The sample pairs given to the reverb.
ReverbInputs == { <<Lit(5, 10), Lit(0 - 25, 100)>>, <<0, Lit(1, 10)>> }

StagesInit ==
    \E p \in StageProcessors :
        /\ proc = p
        /\ fresh = p
        /\ call = Call("new", <<p.sample_rate>>, <<>>, <<>>, <<>>, <<>>, 0)
        /\ panicked = FALSE
        /\ output_l = <<>>
        /\ output_r = <<>>
        /\ eq_gain = <<0, 0, 0>>
        /\ eq_flat = TRUE
        /\ clean = (p = ProcessorNew(p.sample_rate))
        /\ ncalls = 0
        /\ nsets = 0
        /\ nresets = 0

\* The state after a stage was given the pair in and returned o (the pair
\* o.l, o.r and whether it panicked), the processor being q then.
StageCalled(op, in, q, o, failed) ==
    /\ ~panicked
    /\ ncalls < MaxStageCalls
    /\ proc' = q
    /\ call' = Call(op, in, <<>>, <<>>, <<>>, <<>>, 0)
    /\ output_l' = <<o.l>>
    /\ output_r' = <<o.r>>
    /\ panicked' = failed
    /\ clean' = FALSE
    /\ ncalls' = ncalls + 1
    /\ UNCHANGED <<fresh, nsets, nresets>>

CompressorReturned(in, o) ==
    StageCalled("compressor.process_stereo", in, [proc EXCEPT !.compressor = o.st],
                o, FALSE)

compressor_process_stereo ==
    \E in \in CompressorInputs :
        /\ CompressorReturned(in, CompressorProcessStereo(proc.compressor, in[1], in[2]))
        /\ UNCHANGED <<eq_gain, eq_flat>>

LimiterReturned(in, o) ==
    StageCalled("limiter.process_stereo", in, [proc EXCEPT !.limiter = o.st], o, FALSE)

limiter_process_stereo ==
    \E in \in LimiterInputs :
        /\ LimiterReturned(in, LimiterProcessStereo(proc.limiter, in[1], in[2]))
        /\ UNCHANGED <<eq_gain, eq_flat>>

ReverbReturned(in, o) ==
    StageCalled("reverb.process_stereo", in, [proc EXCEPT !.reverb = o.st], o, o.panic)

reverb_process_stereo ==
    \E in \in ReverbInputs :
        /\ ReverbReturned(in, ReverbProcessStereo(proc.reverb, in[1], in[2]))
        /\ UNCHANGED <<eq_gain, eq_flat>>

BiquadReturned(in, o) ==
    StageCalled("eq_low.process_stereo", in, [proc EXCEPT !.eq_low = o.st], o, FALSE)

biquad_process_stereo ==
    \E in \in BiquadInputs :
        /\ BiquadReturned(in, BiquadProcessStereo(proc.eq_low, in[1], in[2]))
        /\ UNCHANGED <<eq_gain, eq_flat>>

StagesNext ==
    \/ biquad_process_stereo
    \/ set_eq_low
    \/ compressor_process_stereo
    \/ limiter_process_stereo
    \/ reverb_process_stereo
    \/ set_compressor
    \/ set_compressor_makeup
    \/ set_limiter
    \/ set_reverb

\* The stages of a processor, each given samples by itself.
SpecStages == StagesInit /\ [][StagesNext]_vars

\* A step of a stage, as the properties below read it: the stage's state
\* before it, the pair given (call'.args), the stage's state after it and
\* the pair returned.
StageStep(st, c, q, out_l, out_r) ==
    [st |-> st, in_l |-> c.args[1], in_r |-> c.args[2], q |-> q,
     out_l |-> out_l[1], out_r |-> out_r[1]]

\* The peak of the pair given in stage step t, and of the pair returned.
PeakIn(t) == FMax(FAbs(t.in_l), FAbs(t.in_r))

PeakOut(t) == FMax(FAbs(t.out_l), FAbs(t.out_r))

\* Stage step t returned the pair it was given.
PairUnchanged(t) == t.out_l = t.in_l /\ t.out_r = t.in_r

\* Stage step t of the compressor started with envelope 0, makeup gain 1
\* (0 dB) and a peak at or below the threshold: the envelope is 0 after it
\* and the pair is returned as it was given.
SubThresholdStep(t) ==
    (/\ t.st.envelope = 0
     /\ t.st.makeup_gain = ONE
     /\ ~IsNaN(t.st.threshold_db)
     /\ ~FGt(PeakDb(PeakIn(t)), t.st.threshold_db))
        => t.q.envelope = 0 /\ PairUnchanged(t)

HoldsSamples(rv) ==
    \E i \in 1..6 : \E k \in 1..Len(rv.comb_buffers_l[i]) : rv.comb_buffers_l[i][k] # 0

\* Stage step t of the reverb started with the reverb disabled, or with a
\* mix of 0.001 or less: the pair is returned as it was given, and the
\* reverb is left as it was.
BypassStep(t, failed) ==
    (~t.st.enabled \/ ~FGt(t.st.mix, Lit(1, 1000)))
        => ~failed /\ PairUnchanged(t) /\ t.q = t.st

\* C16: whenever the reverb is disabled (mix 0, or a mix of 0.001 or less
\* set through set_reverb), the reverb returns the pair it is given exactly,
\* whatever the input and whatever its delay buffers hold.
ReverbBypass ==
    [][call'.op = "reverb.process_stereo" =>
         BypassStep(StageStep(proc.reverb, call', proc'.reverb, output_l', output_r'),
                    panicked')]_vars

\* The reverb returned a pair other than silence as it was given, disabled
\* by set_reverb after it had processed samples that its buffers still hold.
ReverbBypassWitness ==
    /\ call.op = "reverb.process_stereo"
    /\ nsets = 1
    /\ ~proc.reverb.enabled
    /\ proc.reverb.mix > 0
    /\ HoldsSamples(proc.reverb)
    /\ call.args[1] # 0
    /\ output_l = <<call.args[1]>>
    /\ output_r = <<call.args[2]>>

\* The envelope the limiter settles at on the constant input 1.0 with
\* threshold 0.98 and release_coeff 0.9995: the attack's target
\* 1 - 0.98 / 1.0 = 0.02, released once.
SteadyEnvelope == FMul(FSub(ONE, Lit(98, 100)), Lit(9995, 10000))

\* Stage step t of the limiter, at its defaults, was given the pair
\* (1.0, 1.0) with the envelope 0 or SteadyEnvelope: the envelope is
\* SteadyEnvelope after it and both outputs are 1 - SteadyEnvelope, which is
\* 0.98001 to the model's resolution.
SteadyStep(t) ==
    (/\ t.st.threshold = Lit(98, 100)
     /\ t.st.release_coeff = Lit(9995, 10000)
     /\ t.st.envelope \in {0, SteadyEnvelope}
     /\ t.in_l = ONE
     /\ t.in_r = ONE)
        => /\ t.q.envelope = SteadyEnvelope
           /\ t.out_l = FSub(ONE, SteadyEnvelope)
           /\ t.out_r = FSub(ONE, SteadyEnvelope)
           /\ Near(t.out_l, Lit(9800, 10000))

\* C17: with threshold 0.98, release_coeff 0.9995 and the envelope 0 at the
\* start, the limiter given the constant 1.0 returns 1 - 0.02 * 0.9995 on
\* the first sample and on every following one, and its envelope is
\* 0.02 * 0.9995 after each of them.
LimiterSteadyState ==
    [][call'.op = "limiter.process_stereo" =>
         SteadyStep(StageStep(proc.limiter, call', proc'.limiter, output_l',
                              output_r'))]_vars

\* The limiter returned 1 - SteadyEnvelope for the third 1.0 in a row.
LimiterSteadyStateWitness ==
    /\ call.op = "limiter.process_stereo"
    /\ call.args = <<ONE, ONE>>
    /\ ncalls = MaxStageCalls
    /\ nsets = 0
    /\ proc.compressor.envelope = 0
    /\ proc.reverb = fresh.reverb
    /\ proc.limiter.envelope = SteadyEnvelope
    /\ output_l = <<FSub(ONE, SteadyEnvelope)>>
    /\ output_r = <<FSub(ONE, SteadyEnvelope)>>

\* Stage step t of the limiter on which the instant attack did not fire
\* (the peak not over the threshold, or the target gain not over the
\* envelope): the peak of the pair returned is not over the threshold.
NoAttackStep(t) ==
    (~IsNaN(t.st.threshold) /\ LimiterAttack(t.st, PeakIn(t)) = t.st.envelope)
        => ~FGt(PeakOut(t), t.st.threshold)

\* C18: on every sample on which the limiter's instant attack does not
\* fire, the peak of its output does not exceed the threshold.  The code
\* violates it: the release decays the envelope before the gain is taken,
\* so a peak whose target gain is just under the envelope is attenuated by
\* less than it needs.
BrickWallWithoutAttack ==
    [][call'.op = "limiter.process_stereo" =>
         NoAttackStep(StageStep(proc.limiter, call', proc'.limiter, output_l',
                                output_r'))]_vars

\* Step t is a get_gain_reduction call: it returned the compressor's
\* envelope and left the processor as it was.
GainReductionStep(t) ==
    t.c.op = "get_gain_reduction"
        => /\ t.c.ret = t.p.compressor.envelope
           /\ t.q = t.p
           /\ ~t.failed

\* C19: get_gain_reduction returns the compressor's current envelope and
\* changes no state of the processor.
GainReductionReadOnly ==
    [][GainReductionStep(Step(proc, call', proc', output_l', output_r', panicked'))]_vars

\* get_gain_reduction returned a nonzero envelope after a block call.
GainReductionReadOnlyWitness ==
    /\ call.op = "get_gain_reduction"
    /\ call.ret # 0
    /\ ncalls >= 1
    /\ proc.limiter.envelope # call.ret

\* The frequencies and Q a processor is constructed with.
DefaultFreqs == <<Lit(80, 1), Lit(1000, 1), Lit(10000, 1), Lit(707, 1000)>>

\* The frequencies and Q the bands can be designed at: those of the
\* constructor and those set_eq_frequencies caches (clamped).
DesignFreqs ==
    {DefaultFreqs} \cup
        { <<Clamp(a[1], Lit(20, 1), Lit(500, 1)),
            Clamp(a[2], Lit(200, 1), Lit(8000, 1)),
            Clamp(a[3], Lit(2000, 1), Lit(20000, 1)),
            Clamp(a[4], Lit(1, 10), Lit(10, 1))>> : a \in FrequencyArgs }

\* The coefficient sets one design call can leave in each band of processor
\* p: a design for one gain at one of the frequencies.
WholeLow(p) ==
    { Coeffs(SetLowShelf(BiquadDefault, f[1], g, p.sample_rate)) :
        f \in DesignFreqs, g \in GainArgs }

WholeMid(p) ==
    { Coeffs(SetPeaking(BiquadDefault, f[2], g, f[4], p.sample_rate)) :
        f \in DesignFreqs, g \in GainArgs }

WholeHigh(p) ==
    { Coeffs(SetHighShelf(BiquadDefault, f[3], g, p.sample_rate)) :
        f \in DesignFreqs, g \in GainArgs }

WholeSets(p) ==
    /\ Coeffs(p.eq_low) \in WholeLow(p)
    /\ Coeffs(p.eq_mid) \in WholeMid(p)
    /\ Coeffs(p.eq_high) \in WholeHigh(p)

\* What stage b was given (io = "in") or returned (io = "out") on channel
\* ch, back samples before the k-th sample of the call whose chains are
\* given; h1 and h2 are the values held from before the call.
Earlier(chains, b, io, ch, k, back, h1, h2) ==
    IF k - back >= 1 THEN chains[k - back][b][io][ch]
    ELSE IF k - back = 0 THEN h1 ELSE h2

\* The k-th sample's pass through EQ band b was filtered with the
\* coefficient set of bq, the band as it was before the call.
FilteredWith(bq, chains, b, k) ==
    /\ chains[k][b].out[1] =
          BiquadOut(bq, chains[k][b].in[1],
                    Earlier(chains, b, "in", 1, k, 1, bq.x1_l, bq.x2_l),
                    Earlier(chains, b, "in", 1, k, 2, bq.x1_l, bq.x2_l),
                    Earlier(chains, b, "out", 1, k, 1, bq.y1_l, bq.y2_l),
                    Earlier(chains, b, "out", 1, k, 2, bq.y1_l, bq.y2_l))
    /\ chains[k][b].out[2] =
          BiquadOut(bq, chains[k][b].in[2],
                    Earlier(chains, b, "in", 2, k, 1, bq.x1_r, bq.x2_r),
                    Earlier(chains, b, "in", 2, k, 2, bq.x1_r, bq.x2_r),
                    Earlier(chains, b, "out", 2, k, 1, bq.y1_r, bq.y2_r),
                    Earlier(chains, b, "out", 2, k, 2, bq.y1_r, bq.y2_r))

\* Every sample of the block call that ended as res, made on processor p,
\* was filtered in each band with the set p held when the call was made.
OneSetPerBlock(p, res) ==
    \A k \in 1..Len(res.chains) :
        /\ FilteredWith(p.eq_low, res.chains, 1, k)
        /\ FilteredWith(p.eq_mid, res.chains, 2, k)
        /\ FilteredWith(p.eq_high, res.chains, 3, k)

\* Step t, if not a block call, leaves whole coefficient sets; a block call
\* leaves the sets as they were and filters every sample with them.
AtomicStep(t) ==
    /\ ~(Stereo(t) \/ Mono(t)) => WholeSets(t.q)
    /\ (Stereo(t) \/ Mono(t)) =>
          /\ Coeffs(t.q.eq_low) = Coeffs(t.p.eq_low)
          /\ Coeffs(t.q.eq_mid) = Coeffs(t.p.eq_mid)
          /\ Coeffs(t.q.eq_high) = Coeffs(t.p.eq_high)
    /\ Stereo(t) => OneSetPerBlock(t.p, StereoResult(t))
    /\ Mono(t) => OneSetPerBlock(t.p, MonoResult(t))

\* C20: setters and block calls are atomic to each other: every coefficient
\* set {b0, b1, b2, a1, a2} a band holds is one design call's, never part of
\* one and part of another, and every sample of a block is filtered with
\* the sets the processor held when the block call was made.
SettersAtomic ==
    [][AtomicStep(Step(proc, call', proc', output_l', output_r', panicked'))]_vars

\* A stereo call of five samples returned after set_eq_low had replaced the
\* flat low shelf.
SettersAtomicWitness ==
    /\ call.op = "process_block_stereo"
    /\ ~panicked
    /\ nsets = 1
    /\ eq_gain[1] = Lit(6, 1)
    /\ Coeffs(proc.eq_low) # FlatLow(proc)
    /\ ncalls = 2
    /\ Len(output_l) = MaxLen
    /\ output_l[MaxLen] # Stale

\* Reverb stage step t, enabled and not failing: the cursor of every comb
\* has advanced modulo the length of the left buffer and modulo the length
\* of the right buffer.
CombCursorStep(t, failed) ==
    (t.st.enabled /\ ~failed) =>
        \A i \in 1..6 :
            /\ t.q.comb_indices[i] =
                  (t.st.comb_indices[i] + 1) % Len(t.st.comb_buffers_l[i])
            /\ t.q.comb_indices[i] =
                  (t.st.comb_indices[i] + 1) % Len(t.st.comb_buffers_r[i])

\* C24: each comb is a circular delay line per channel whose cursor advances
\* modulo that channel's own buffer length, so that a value written to the
\* left (right) buffer is read back len_L (len_R) enabled calls later.  The
\* code violates it: the two channels share one cursor, which advances
\* modulo the left length.
CombDelayPerChannel ==
    [][call'.op = "reverb.process_stereo" =>
         CombCursorStep(StageStep(proc.reverb, call', proc'.reverb, output_l',
                                  output_r'), panicked')]_vars

\* Limiter state lim has its envelope in [0, 1).
EnvelopeInRange(lim) == ~IsNaN(lim.envelope) /\ 0 <= lim.envelope /\ lim.envelope < ONE

\* The envelope of limiter stage step t before the release: the target
\* gain 1 - threshold / peak where the peak is over the threshold and the
\* target over the envelope, else the envelope as it was.
Attacked(t) ==
    IF FGt(PeakIn(t), t.st.threshold)
          /\ FGt(FSub(ONE, FDiv(t.st.threshold, PeakIn(t))), t.st.envelope)
    THEN FSub(ONE, FDiv(t.st.threshold, PeakIn(t)))
    ELSE t.st.envelope

\* Limiter stage step t: the envelope never falls by the attack, is
\* released once after it, and the pair is multiplied by the gain
\* 1 - envelope, which is in (0, 1].
EnvelopeStep(t) ==
    /\ Attacked(t) >= t.st.envelope
    /\ t.q.envelope = FMul(Attacked(t), t.st.release_coeff)
    /\ t.q.envelope <= Attacked(t)
    /\ FSub(ONE, t.q.envelope) > 0 /\ FSub(ONE, t.q.envelope) <= ONE
    /\ t.out_l = FMul(t.in_l, FSub(ONE, t.q.envelope))
    /\ t.out_r = FMul(t.in_r, FSub(ONE, t.q.envelope))

\* C25: the limiter's envelope is in [0, 1) in every state; within a call it
\* rises only by the instant attack to 1 - threshold / peak and is then
\* multiplied by release_coeff, also right after an attack; the gain
\* 1 - envelope is in (0, 1].
LimiterEnvelopeInvariant ==
    [][/\ EnvelopeInRange(proc'.limiter)
       /\ call'.op = "limiter.process_stereo" =>
             EnvelopeStep(StageStep(proc.limiter, call', proc'.limiter, output_l',
                                    output_r'))]_vars

\* The limiter returned a pair on which the attack did not fire although
\* the peak was over the threshold, the envelope held from a louder pair
\* before.
LimiterEnvelopeInvariantWitness ==
    /\ call.op = "limiter.process_stereo"
    /\ ncalls >= 2
    /\ call.args = <<Lit(1998, 1000), Lit(1998, 1000)>>
    /\ ~IsNaN(proc.limiter.threshold)
    /\ proc.limiter.envelope > FSub(ONE, FDiv(proc.limiter.threshold, Lit(1998, 1000)))
    /\ proc.limiter.envelope > Lit(4, 10)

\* Stage step t as res: the same stage in the same state given the swapped
\* pair returned the swapped pair and is in the same state after it.
SwappedStep(t, res) == res.l = t.out_r /\ res.r = t.out_l /\ res.st = t.q

\* C26: the compressor and the limiter keep one envelope for both channels
\* and multiply both by one gain: the channel-swapped input gives the
\* channel-swapped output and the same envelope.
StereoLinked ==
    [][/\ call'.op = "compressor.process_stereo" =>
             SwappedStep(StageStep(proc.compressor, call', proc'.compressor,
                                   output_l', output_r'),
                         CompressorProcessStereo(proc.compressor, call'.args[2],
                                                 call'.args[1]))
       /\ call'.op = "limiter.process_stereo" =>
             SwappedStep(StageStep(proc.limiter, call', proc'.limiter,
                                   output_l', output_r'),
                         LimiterProcessStereo(proc.limiter, call'.args[2],
                                              call'.args[1]))]_vars

\* The compressor returned a pair whose channels differ in magnitude, with
\* gain reduction on both.
StereoLinkedWitness ==
    /\ call.op = "compressor.process_stereo"
    /\ Abs(call.args[1]) > Abs(call.args[2])
    /\ call.args[2] # 0
    /\ proc.compressor.envelope > 0
    /\ Abs(output_l[1]) < Abs(call.args[1])
    /\ Abs(output_r[1]) < Abs(call.args[2])

\* Biquad stage step t: the history of each channel is shifted once, the
\* newest entries being the sample given and the sample returned, each
\* channel's output is the difference equation on its own input and
\* history, and the coefficients are as they were.
BiquadStep(t) ==
    /\ History(t.q) = <<t.in_l, t.st.x1_l, t.out_l, t.st.y1_l,
                        t.in_r, t.st.x1_r, t.out_r, t.st.y1_r>>
    /\ t.out_l = BiquadOut(t.st, t.in_l, t.st.x1_l, t.st.x2_l, t.st.y1_l, t.st.y2_l)
    /\ t.out_r = BiquadOut(t.st, t.in_r, t.st.x1_r, t.st.x2_r, t.st.y1_r, t.st.y2_r)
    /\ Coeffs(t.q) = Coeffs(t.st)

\* C27: a biquad's history is advanced once per process_stereo call and per
\* channel: x1 is the input just processed, x2 the x1 before, y1 the output
\* just produced, y2 the y1 before; neither channel's output or history
\* depends on the other's input; the coefficients are unchanged.
BiquadHistoryShift ==
    [][call'.op = "eq_low.process_stereo" =>
         BiquadStep(StageStep(proc.eq_low, call', proc'.eq_low, output_l',
                              output_r'))]_vars

\* The low shelf, designed for 6 dB, returned its second pair at least, the
\* channels' histories differing.
BiquadHistoryShiftWitness ==
    /\ call.op = "eq_low.process_stereo"
    /\ eq_gain[1] = Lit(6, 1)
    /\ proc.eq_low.x2_l # 0
    /\ proc.eq_low.y2_l # proc.eq_low.y2_r
    /\ proc.eq_low.y1_l # proc.eq_low.x1_l
    /\ output_l[1] = proc.eq_low.y1_l

\* Reset left processor p as q: nothing but the three filters and the two
\* envelopes differs.
ResetFrame(p, q) ==
    q = [p EXCEPT !.eq_low = q.eq_low, !.eq_mid = q.eq_mid, !.eq_high = q.eq_high,
                  !.compressor.envelope = q.compressor.envelope,
                  !.limiter.envelope = q.limiter.envelope]

DelayLines(rv) ==
    <<rv.comb_buffers_l, rv.comb_buffers_r, rv.comb_indices,
      rv.ap_buffers_l, rv.ap_buffers_r, rv.ap_indices>>

\* C29: while the reverb is disabled a processed sample leaves every delay
\* buffer and every cursor unchanged, and so does set_reverb: what was
\* written while the reverb was enabled is read back after enabling it
\* again.
DisabledKeepsDelayLines ==
    [][((call'.op = "reverb.process_stereo" /\ ~proc.reverb.enabled)
           \/ call'.op = "set_reverb")
          => DelayLines(proc'.reverb) = DelayLines(proc.reverb)]_vars

\* The reverb of DisabledWithContent, enabled again, returned a pair whose
\* right sample is not the dry one: a comb read back what it was given
\* before the reverb was disabled.
DisabledKeepsDelayLinesWitness ==
    /\ call.op = "reverb.process_stereo"
    /\ ~panicked
    /\ nsets = 1
    /\ proc.reverb.enabled
    /\ proc.reverb.mix = Lit(5, 10)
    /\ fresh.reverb.comb_buffers_r = DisabledWithContent.reverb.comb_buffers_r
    /\ output_r[1] # FMul(call.args[2], FSub(ONE, proc.reverb.mix))

\* ------------------------------------------------------ PhaseVocoder ----

\* PhaseVocoder::new
PhaseVocoderNew(fft_size, sample_rate) ==
    [fft_size |-> fft_size, hop_size |-> fft_size \div 4,
     sample_rate |-> sample_rate, pitch_shift |-> ONE]

\* set_pitch_shift: self.pitch_shift = shift.clamp(0.5, 2.0)
SetPitchShift(v, shift) == [v EXCEPT !.pitch_shift = Clamp(shift, Lit(5, 10), Lit(2, 1))]

\* (i as f32 * self.pitch_shift) as usize: the cast truncates toward zero
\* and gives 0 for NaN.
SourcePos(i, pitch_shift) ==
    IF IsNaN(pitch_shift) \/ pitch_shift < 0 THEN 0 ELSE (i * pitch_shift) \div ONE

\* A process whose bound on the source position is the input's length.
PitchSampleUnbounded(v, input, i, len) ==
    IF SourcePos(i, v.pitch_shift) < Len(input)
    THEN input[SourcePos(i, v.pitch_shift) + 1] ELSE 0

\* if pos < len { input[pos] } else { 0.0 }, for index i (from 0).
PitchSample(v, input, i, len) ==
    IF SourcePos(i, v.pitch_shift) < len THEN input[SourcePos(i, v.pitch_shift) + 1] ELSE 0

\* for i in 0..len { output[i] = ... }
RECURSIVE PitchLoop(_, _, _, _, _)
PitchLoop(v, input, output, i, len) ==
    IF i >= len THEN output
    ELSE PitchLoop(v, input, [output EXCEPT ![i + 1] = PitchSample(v, input, i, len)],
                   i + 1, len)

\* PhaseVocoder::process: the output buffer after the call.
PitchProcess(v, input, output) == PitchLoop(v, input, output, 0, Min(Len(input), Len(output)))

\* The arguments of set_pitch_shift: inside the range, on its ends, outside
\* it, and NaN.
ShiftArgs ==
    {Lit(5, 10), Lit(75, 100), Lit(15, 10), Lit(2, 1), Lit(25, 100), Lit(3, 1), NaN}

\* An input whose value tells its index (from 1): 0.1, 0.2, ...
Ramp(n) == [i \in 1..n |-> i * Lit(1, 10)]

\* The state of a specification of another instance than the processor:
\* the instance as constructed and its twin, no call made.
InstanceInit(v, args) ==
    /\ proc = v
    /\ fresh = v
    /\ call = Call("new", args, <<>>, <<>>, <<>>, <<>>, 0)
    /\ panicked = FALSE
    /\ output_l = <<>>
    /\ output_r = <<>>
    /\ eq_gain = <<0, 0, 0>>
    /\ eq_flat = TRUE
    /\ clean = TRUE
    /\ ncalls = 0
    /\ nsets = 0
    /\ nresets = 0

VocoderInit == InstanceInit(PhaseVocoderNew(1024, 48000), <<1024, 48000>>)

set_pitch_shift ==
    \E shift \in ShiftArgs :
        /\ Setter("set_pitch_shift", <<shift>>, SetPitchShift(proc, shift),
                  SetPitchShift(fresh, shift))
        /\ UNCHANGED <<eq_gain, eq_flat>>

phase_vocoder_process ==
    \E lens \in MonoLens :
        /\ ~panicked
        /\ ncalls < MaxCalls
        /\ call' = Call("process", <<>>, Ramp(lens[1]), <<>>, OutputBuffer(lens[2]),
                        <<>>, 0)
        /\ output_l' = PitchProcess(proc, Ramp(lens[1]), OutputBuffer(lens[2]))
        /\ output_r' = <<>>
        /\ ncalls' = ncalls + 1
        /\ UNCHANGED <<proc, fresh, panicked, eq_gain, eq_flat, clean, nsets, nresets>>

VocoderNext == set_pitch_shift \/ phase_vocoder_process

\* The PhaseVocoder: its constructor, then set_pitch_shift and process.
SpecVocoder == VocoderInit /\ [][VocoderNext]_vars

\* round(i * ratio) for an index i (from 0) and a ratio >= 0: the nearest
\* index, a half rounding away from zero as f32::round does.
NearestPos(i, ratio) == (i * ratio + ONE \div 2) \div ONE

\* Process call c on a vocoder with the given ratio returned out: every
\* output index whose nearest source index is inside the input holds that
\* input sample.
NearestSampleStep(ratio, c, out) ==
    \A i \in 0..(Min(Len(c.input_l), Len(c.output_l)) - 1) :
        NearestPos(i, ratio) < Len(c.input_l)
            => out[i + 1] = c.input_l[NearestPos(i, ratio) + 1]

\* C21: process sets each output[i] to input[round(i * ratio)], the input
\* sample nearest to position i * ratio, whenever that index is inside the
\* input (for every ratio in [0.5, 2.0]).  The code violates it: the cast to
\* usize truncates.
NearestSampleLookup ==
    [][(call'.op = "process" /\ ~IsNaN(proc.pitch_shift))
          => NearestSampleStep(proc.pitch_shift, call', output_l')]_vars

\* Process call c on vocoder v returned out: the first len elements are the
\* input at the source position, or 0.0 where that position is len or more,
\* no element of the input at len or beyond is used, and the output from
\* len on is as it was.
ExactlyLenStep(v, c, out) ==
    LET len == Min(Len(c.input_l), Len(c.output_l))
    IN  /\ Len(out) = Len(c.output_l)
        /\ \A i \in 0..(len - 1) :
              /\ SourcePos(i, v.pitch_shift) >= len => out[i + 1] = 0
              /\ SourcePos(i, v.pitch_shift) < len
                    => out[i + 1] = c.input_l[SourcePos(i, v.pitch_shift) + 1]
        /\ \A i \in (len + 1)..Len(out) : out[i] = c.output_l[i]

\* C30: PhaseVocoder::process writes exactly the first
\* len = min(len(input), len(output)) output elements, writes 0.0 where the
\* source position is len or more (also when the input is longer than the
\* output), leaves the output from len on unchanged, and never fails.
PitchWritesExactlyLen ==
    [][call'.op = "process"
          => ~panicked' /\ proc' = proc /\ ExactlyLenStep(proc, call', output_l')]_vars

\* A call at ratio 2.0 with five input samples and three output elements
\* returned: the third element, whose source position 4 is inside the input
\* and not below len, is 0.0.
PitchWritesExactlyLenWitness ==
    /\ call.op = "process"
    /\ proc.pitch_shift = Lit(2, 1)
    /\ Len(call.input_l) = MaxLen
    /\ Len(output_l) = MaxLen - 2
    /\ output_l[MaxLen - 2] = 0
    /\ output_l[2] = call.input_l[3]

\* ----------------------------------------------------- GranularSynth ----

\* GranularSynth::new
GranularSynthNew(grain_size) ==
    [grain_size |-> grain_size, grain_density |-> Lit(5, 10), buffer |-> <<>>]

\* A set_parameters whose randomness thins the density.
SetParametersJittered(g, grain_size, density, randomness) ==
    [g EXCEPT !.grain_size = grain_size,
              !.grain_density = FMul(Clamp(density, 0, ONE), FSub(ONE, randomness))]

\* set_parameters: _randomness is not used.
SetParameters(g, grain_size, density, randomness) ==
    [g EXCEPT !.grain_size = grain_size, !.grain_density = Clamp(density, 0, ONE)]

\* load_buffer
LoadBuffer(g, buffer) == [g EXCEPT !.buffer = buffer]

\* let grain_pos = (i % self.grain_size) as f32 / self.grain_size as f32;
\* (grain_pos * PI).sin(), for grain_size > 0.
GrainEnvelope(i, grain_size) == SinHalf(((i % grain_size) * ONE) \div grain_size)

\* self.buffer[buf_idx] * envelope * self.grain_density
GrainSample(g, i) ==
    FMul(FMul(g.buffer[(i % Len(g.buffer)) + 1], GrainEnvelope(i, g.grain_size)),
         g.grain_density)

\* for i in 0..len: i % self.grain_size panics when grain_size is 0.
RECURSIVE GrainLoop(_, _, _, _)
GrainLoop(g, output, i, len) ==
    IF i >= len THEN [out |-> output, panic |-> FALSE]
    ELSE IF g.grain_size = 0 THEN [out |-> output, panic |-> TRUE]
    ELSE GrainLoop(g, [output EXCEPT ![i + 1] = GrainSample(g, i)], i + 1, len)

\* GranularSynth::process: the output buffer after the call, and whether it
\* panicked.
GranularProcess(g, output) ==
    IF Len(g.buffer) = 0 THEN [out |-> output, panic |-> FALSE]
    ELSE GrainLoop(g, output, 0, Len(output))

GrainSizes == {0, 2, 3}

DensityArgs == {Lit(25, 100), Lit(15, 10), Lit(0 - 1, 1), NaN}

RandomnessArgs == {0, Lit(5, 10), ONE}

Buffers == {<<>>, Ramp(2), Ramp(4)}

GranularInit ==
    \E grain_size \in GrainSizes :
        InstanceInit(GranularSynthNew(grain_size), <<grain_size>>)

\* set_parameters on proc; its twin fresh is given the same grain size and
\* density and another randomness.
set_parameters ==
    \E grain_size \in GrainSizes, density \in DensityArgs, randomness \in RandomnessArgs :
        \E other \in RandomnessArgs \ {randomness} :
            /\ Setter("set_parameters", <<grain_size, density, randomness, other>>,
                      SetParameters(proc, grain_size, density, randomness),
                      SetParameters(fresh, grain_size, density, other))
            /\ UNCHANGED <<eq_gain, eq_flat>>

\* load_buffer on proc and on its twin.
load_buffer ==
    \E buffer \in Buffers :
        /\ ~panicked
        /\ ncalls < MaxCalls
        /\ proc' = LoadBuffer(proc, buffer)
        /\ fresh' = LoadBuffer(fresh, buffer)
        /\ call' = Call("load_buffer", <<buffer>>, <<>>, <<>>, <<>>, <<>>, 0)
        /\ output_l' = <<>>
        /\ output_r' = <<>>
        /\ ncalls' = ncalls + 1
        /\ UNCHANGED <<panicked, eq_gain, eq_flat, clean, nsets, nresets>>

\* The state after process returned res on proc and twin on its twin:
\* output_l is proc's output buffer, output_r the twin's.
GranularReturned(n, res, twin) ==
    /\ ~panicked
    /\ ncalls < MaxCalls
    /\ call' = Call("process", <<>>, <<>>, <<>>, OutputBuffer(n), OutputBuffer(n), 0)
    /\ output_l' = res.out
    /\ output_r' = twin.out
    /\ panicked' = res.panic
    /\ ncalls' = ncalls + 1
    /\ UNCHANGED <<proc, fresh, eq_gain, eq_flat, clean, nsets, nresets>>

granular_synth_process ==
    \E n \in 0..MaxLen :
        /\ GranularReturned(n, GranularProcess(proc, OutputBuffer(n)),
                            GranularProcess(fresh, OutputBuffer(n)))
        /\ call'.op = "process"

GranularNext == set_parameters \/ load_buffer \/ granular_synth_process

\* The GranularSynth and a twin: the constructor, then set_parameters,
\* load_buffer and process.
SpecGranular == GranularInit /\ [][GranularNext]_vars

\* C22: the randomness argument of set_parameters has no effect: a
\* synthesizer and its twin, given the same grain size, density and buffer
\* and different randomness, hold the same state, and process writes the same
\* output for both, for every output length.
RandomnessHasNoEffect == proc = fresh /\ (call.op = "process" => output_l = output_r)

\* process returned a full-length output with a sample other than 0.0 after
\* the two had been given different randomness.
RandomnessHasNoEffectWitness ==
    /\ call.op = "process"
    /\ nsets = 1
    /\ ~panicked
    /\ Len(output_l) = MaxLen
    /\ \E i \in 1..MaxLen : output_l[i] # 0 /\ output_l[i] # Stale

\* Process call c on synthesizer g returned out without failing: the output
\* as it was when the buffer is empty, else buffer[i mod buffer length]
\* scaled by the grain's envelope and a density in [0, 1] at every index.
GranularStep(g, c, out, failed) ==
    /\ ~failed
    /\ Len(g.buffer) = 0 => out = c.output_l
    /\ Len(g.buffer) > 0 =>
          /\ ~IsNaN(g.grain_density) /\ 0 <= g.grain_density /\ g.grain_density <= ONE
          /\ \A i \in 0..(Len(out) - 1) :
                out[i + 1] = FMul(FMul(g.buffer[(i % Len(g.buffer)) + 1],
                                       GrainEnvelope(i, g.grain_size)),
                                  g.grain_density)

\* C23: GranularSynth::process never fails in any state reachable through
\* new, set_parameters and load_buffer, grain size 0 and the empty buffer
\* included.  The code violates it: i % grain_size panics when grain_size is
\* 0 and the buffer is not empty.
GranularNeverFails ==
    [][call'.op = "process" => GranularStep(proc, call', output_l', panicked')]_vars

====
